---------------------------- MODULE Spec2Model ----------------------------
(***************************************************************************)
(* A model of the Rhai scripting engine's AST container (src/ast.rs) and   *)
(* of the host API that compiles, evaluates and calls into scripts         *)
(* (src/engine_api.rs).                                                    *)
(*                                                                         *)
(* Eleven specifications are given:                                        *)
(*   SpecAST      - the AST operations merge / combine / clone_*_only      *)
(*                  applied to two ASTs drawn from a bounded pool;         *)
(*   Spec         - a host that pushes entries into a Scope and evaluates  *)
(*                  scripts, with and without that Scope;                  *)
(*   SpecCallFn   - a host that pushes entries into a Scope, compiles a    *)
(*                  script of functions and calls them through call_fn;    *)
(*   SpecFnPtr    - a host that calls script functions with a `this`       *)
(*                  value and through function pointers                    *)
(*                  (src/fn_native.rs);                                    *)
(*   SpecProgress - a host that sets a progress callback and a quota of    *)
(*                  operations, registers indexers and runs scripts;       *)
(*   SpecOptimize - a host that sets the optimization level and compiles   *)
(*                  scripts together with its Scope;                       *)
(*   SpecNode     - the operations of the nodes of an AST: position,       *)
(*                  set_position, get_constant_value, extract_variables;   *)
(*   SpecTime     - the operators + and - of a timestamp and a number of   *)
(*                  seconds (src/packages/time_basic.rs);                  *)
(*   SpecDefVar   - a host that evaluates is_def_var at the end of a       *)
(*                  script of declarations;                                *)
(*   SpecSyntax   - a host that disables symbols, registers custom syntax  *)
(*                  and compiles scripts (tests/syntax.rs);                *)
(*   SpecExec     - the run of a script that uses the custom syntax exec,  *)
(*                  step by step, under weak fairness of the steps.        *)
(* The engine stays at OptimizationLevel::None but in SpecOptimize.        *)
(***************************************************************************)
EXTENDS Integers, Sequences, FiniteSets, TLC

VARIABLES
    ast1,       \* SpecAST: the receiver `self` of an AST operation
    ast2,       \* SpecAST: the argument `other` of an AST operation
    ret,        \* SpecAST: the AST returned by the last operation
    call,       \* SpecAST: the last operation, with the operands as they were before it
    host_scope, \* the Scope of the host: entries from the bottom to the top
    host_ast,   \* the AST the host has compiled
    result,     \* the Result of the last API call
    last,       \* the last API call: its arguments and the scope it was given
    started,    \* the number of statements the last API call started to evaluate
    work,       \* the number of entries pushed and statements submitted by the host so far
    engine,     \* the Engine: its progress callback, limits and optimization level
    caller,     \* what the last call left in the buffers of its caller
    run_state   \* the State the last evaluation ended in, with what was observed of it

astVars == <<ast1, ast2, ret, call>>

engVars == <<host_scope, host_ast, result, last, started, work, engine, caller, run_state>>

\* The variables the hosts of Spec and SpecCallFn leave alone.
setVars == <<ast1, ast2, ret, call, engine, caller, run_state>>

vars == <<ast1, ast2, ret, call, host_scope, host_ast, result, last, started, work,
          engine, caller, run_state>>

---------------------------------------------------------------------------
(* Bounds of the model.                                                    *)

\* Longest statement list of an AST operand.
MaxStmts == 2

\* Most work a host does in one run: the entries it pushes into its Scope
\* plus the statements of the scripts it submits.
MaxWork == 3

\* Most arguments the host passes to a script function.
MaxArgs == 1

\* Engine::max_call_levels: the deepest nesting of script function calls.
MaxCallLevels == 1

\* Largest limit of a progress callback and largest quota of operations.
MaxLimit == 4

---------------------------------------------------------------------------
(* Helpers.                                                                *)

RECURSIVE SeqsUpTo(_, _)
\* The sequences over S of length at most n.
SeqsUpTo(S, n) ==
    IF n = 0 THEN {<<>>}
    ELSE LET shorter == SeqsUpTo(S, n - 1)
         IN  shorter \cup {Append(q, x) : q \in shorter, x \in S}

---------------------------------------------------------------------------
(* Expressions and statements (src/ast.rs, enum Expr / enum Stmt).         *)
(* Every node is a record of the same shape so that nodes can be compared. *)
(* A node is built at NO_POS and moved with At.  FloatConstant, which is   *)
(* behind a feature of the build, is left out.                             *)

NoArgs == <<>>

\* Position::NONE
NO_POS == 0

\* A node as the parser builds it at the position pos.
At(node, pos) == [node EXCEPT !.pos = pos]

\* Expr::Unit(Position)
Unit == [e |-> "Unit", i |-> 0, name |-> "", index |-> 0, args |-> NoArgs, pos |-> NO_POS]

\* Expr::IntegerConstant(INT, Position)
IntegerConstant(n) == [Unit EXCEPT !.e = "IntegerConstant", !.i = n]

\* Expr::Variable((index, modules, hash, ident)): index = 0 stands for None
Variable(index, name) == [Unit EXCEPT !.e = "Variable", !.name = name, !.index = index]

\* Expr::True(Position) and Expr::False(Position): i = 1 for true
BoolConstant(b) == [Unit EXCEPT !.e = "BoolConstant", !.i = IF b THEN 1 ELSE 0]

\* Expr::FnPointer(name): Fn("name")
FnPointer(name) == [Unit EXCEPT !.e = "FnPointer", !.name = name]

\* Expr::CharConstant(char, Position)
CharConstant(c) == [Unit EXCEPT !.e = "CharConstant", !.name = c]

\* Expr::StringConstant(IdentX)
StringConstant(text) == [Unit EXCEPT !.e = "StringConstant", !.name = text]

\* Expr::Property(((getter, setter), ident))
Property(name) == [Unit EXCEPT !.e = "Property", !.name = name]

\* Expr::Stmt(statements, Position): { stmt; ... } as an expression
Expr_Stmt(statements) == [Unit EXCEPT !.e = "Stmt", !.args = statements]

\* Expr::Expr(expr): a wrapped expression
Expr_Expr(expr) == [Unit EXCEPT !.e = "Expr", !.args = <<expr>>]

\* Expr::Array(items, Position)
Array(items) == [Unit EXCEPT !.e = "Array", !.args = items]

\* Expr::Map(items, Position): name holds the keys, args the expressions
Map(keys, items) == [Unit EXCEPT !.e = "Map", !.name = keys, !.args = items]

\* Expr::FnCall(FnCallInfo { name, args, .. }, Position)
FnCall(name, args) == [Unit EXCEPT !.e = "FnCall", !.name = name, !.args = args]

\* Expr::Dot(BinaryExpr { lhs, rhs }, Position)
Dot(lhs, rhs) == [Unit EXCEPT !.e = "Dot", !.args = <<lhs, rhs>>]

\* Expr::In(BinaryExpr { lhs, rhs }, Position)
In(lhs, rhs) == [Unit EXCEPT !.e = "In", !.args = <<lhs, rhs>>]

\* Expr::And(BinaryExpr { lhs, rhs }, Position)
And(lhs, rhs) == [Unit EXCEPT !.e = "And", !.args = <<lhs, rhs>>]

\* Expr::Or(BinaryExpr { lhs, rhs }, Position)
Or(lhs, rhs) == [Unit EXCEPT !.e = "Or", !.args = <<lhs, rhs>>]

\* Expr::Index(BinaryExpr { lhs, rhs }, Position) with rhs the integer
\* literal n: args holds lhs, and name and index are those of lhs.
Index(lhs, n) ==
    [Unit EXCEPT !.e = "Index", !.i = n, !.name = lhs.name, !.index = lhs.index,
                 !.args = <<lhs>>]

\* Expr::Custom(CustomExpr { keywords, func }, Position): name is the key
\* the syntax is registered under.
Custom(key, keywords) == [Unit EXCEPT !.e = "Custom", !.name = key, !.args = keywords]

\* Stmt::Noop(Position)
Noop ==
    [s |-> "Noop", name |-> "", lhs |-> Unit, expr |-> Unit, body |-> <<>>, alt |-> <<>>,
     pos |-> NO_POS]

\* Stmt::Let(ident, Some(expr), Position)
Let(name, expr) == [Noop EXCEPT !.s = "Let", !.name = name, !.expr = expr]

\* Stmt::Const(ident, Some(expr), Position)
Const(name, expr) == [Noop EXCEPT !.s = "Const", !.name = name, !.expr = expr]

\* Stmt::Assignment((lhs, "=", rhs), Position)
Assignment(lhs, rhs) == [Noop EXCEPT !.s = "Assignment", !.lhs = lhs, !.expr = rhs]

\* Stmt::Expr(expr)
Stmt_Expr(expr) == [Noop EXCEPT !.s = "Expr", !.expr = expr]

\* Stmt::TryCatch(body, Some(var), handler): try { body } catch (var) { handler }
TryCatch(body, var, handler) ==
    [Noop EXCEPT !.s = "TryCatch", !.name = var, !.body = body, !.alt = handler]

\* Stmt::IfThenElse(cond, then, Some(else)): if cond { then } else { else }
IfThenElse(cond, then, else) ==
    [Noop EXCEPT !.s = "IfThenElse", !.expr = cond, !.body = then, !.alt = else]

\* Stmt::While(cond, block, Position)
While(cond, block) == [Noop EXCEPT !.s = "While", !.expr = cond, !.body = block]

\* Stmt::Loop(block, Position)
Loop(block) == [Noop EXCEPT !.s = "Loop", !.body = block]

\* Stmt::For(iterable, (name, block), Position)
For(name, iterable, block) ==
    [Noop EXCEPT !.s = "For", !.name = name, !.expr = iterable, !.body = block]

\* Stmt::Block(statements, Position)
Block(statements) == [Noop EXCEPT !.s = "Block", !.body = statements]

\* Stmt::Continue(Position)
Continue == [Noop EXCEPT !.s = "Continue"]

\* Stmt::Break(Position)
Break == [Noop EXCEPT !.s = "Break"]

\* Stmt::ReturnWithVal((ReturnType::Return, _), Some(expr), _): return expr
Return(expr) == [Noop EXCEPT !.s = "Return", !.expr = expr]

\* Stmt::ReturnWithVal((ReturnType::Exception, _), Some(expr), _): throw expr
Throw(expr) == [Noop EXCEPT !.s = "Throw", !.expr = expr]

\* Stmt::Import(expr, Some(alias), Position)
Import(expr, alias) == [Noop EXCEPT !.s = "Import", !.name = alias, !.expr = expr]

\* Stmt::Export(names, Position): one name
Export(name) == [Noop EXCEPT !.s = "Export", !.name = name]

\* Stmt::Share(ident)
Share(name) == [Noop EXCEPT !.s = "Share", !.name = name]

---------------------------------------------------------------------------
(* Script-defined functions and the Module holding them.                   *)

\* enum FnAccess
FnAccess == {"Public", "Private"}

\* struct ScriptFnDef { body, name, access, params }: the body is the
\* statement list of the function's block.
ScriptFnDef(name, access, params, body) ==
    [name |-> name, access |-> access, params |-> params, body |-> body]

\* The key a script function is stored under: the hash of its name and
\* number of parameters, taken to be free of collisions.
calc_script_fn_hash(name, num) == <<name, num>>

FnKey(f) == calc_script_fn_hash(f.name, Len(f.params))

\* Module::default(): a module without functions.
Module_default == [k \in {} |-> 0]

\* The filter predicates a host passes, by name.
Filters == {"all", "none", "error0", "public", "params1"}

\* The closure passed as `filter`: "error0" is the closure of the
\* documentation examples, |_, name, params| name == "error" && params == 0.
ApplyFilter(f, access, name, params) ==
    CASE f = "all"     -> TRUE
      [] f = "none"    -> FALSE
      [] f = "error0"  -> name = "error" /\ params = 0
      [] f = "public"  -> access = "Public"
      [] f = "params1" -> params = 1

\* Module::merge_filtered(&mut self, other, filter): the functions of other
\* that pass the filter are inserted into self, replacing an entry stored
\* under the same key.
Module_merge_filtered(self, other, filter) ==
    LET kept == {k \in DOMAIN other :
                    ApplyFilter(filter, other[k].access, other[k].name, Len(other[k].params))}
    IN  [k \in (DOMAIN self) \cup kept |-> IF k \in kept THEN other[k] ELSE self[k]]

\* Module::iter_script_fn: the function definitions of a module.
iter_script_fn(lib) == {lib[k] : k \in DOMAIN lib}

\* The module holding the functions of S, a set with one function per key.
ModuleOf(S) == [k \in {FnKey(f) : f \in S} |-> CHOOSE f \in S : FnKey(f) = k]

---------------------------------------------------------------------------
(* struct AST(Vec<Stmt>, Module) and its operations.                       *)

\* AST::new(statements, lib)
AST_new(statements, lib) == [statements |-> statements, lib |-> lib]

\* A merge_filtered that passes every function of other, whatever the filter.
merge_filtered_unfiltered(self, other, filter) ==
    AST_new(self.statements \o other.statements,
            Module_merge_filtered(self.lib, other.lib, "all"))

\* A merge_filtered whose (true, false) arm clones the statements of self.
merge_filtered_wrong_arm(self, other, filter) ==
    LET ast == IF self.statements # <<>> /\ other.statements # <<>>
               THEN self.statements \o other.statements
               ELSE self.statements
    IN  AST_new(ast, Module_merge_filtered(self.lib, other.lib, filter))

\* AST::merge_filtered(&self, other, filter) -> AST
merge_filtered(self, other, filter) ==
    LET statements == self.statements
        functions  == self.lib
        ast == CASE statements # <<>> /\ other.statements # <<>> ->
                        statements \o other.statements
                 [] statements # <<>> /\ other.statements = <<>> -> statements
                 [] statements = <<>> /\ other.statements # <<>> -> other.statements
                 [] OTHER -> <<>>
    IN  AST_new(ast, Module_merge_filtered(functions, other.lib, filter))

\* A merge in which the functions of self win a collision.
merge_keep_first(self, other) ==
    AST_new(self.statements \o other.statements,
            Module_merge_filtered(other.lib, self.lib, "all"))

\* AST::merge(&self, other) -> AST
merge(self, other) == merge_filtered(self, other, "all")

\* A combine_filtered that extends the statements but forgets the functions.
combine_filtered_no_functions(self, other, filter) ==
    AST_new(self.statements \o other.statements, self.lib)

\* AST::combine_filtered(&mut self, other, filter): the new value of self
combine_filtered(self, other, filter) ==
    AST_new(self.statements \o other.statements,
            Module_merge_filtered(self.lib, other.lib, filter))

\* AST::combine(&mut self, other): the new value of self
combine(self, other) == combine_filtered(self, other, "all")

\* AST::clone_functions_only_filtered(&self, filter) -> AST
clone_functions_only_filtered(self, filter) ==
    LET functions == Module_merge_filtered(Module_default, self.lib, filter)
    IN  AST_new(<<>>, functions)

\* A clone_functions_only that clones the public functions only.
clone_functions_only_public(self) == clone_functions_only_filtered(self, "public")

\* AST::clone_functions_only(&self) -> AST
clone_functions_only(self) == clone_functions_only_filtered(self, "all")

\* A clone_statements_only that clones the whole AST.
clone_statements_only_all(self) == AST_new(self.statements, self.lib)

\* AST::clone_statements_only(&self) -> AST
clone_statements_only(self) == AST_new(self.statements, Module_default)

\* impl Add<A> for &AST: &ast1 + &ast2
add(self, rhs) == merge(self, rhs)

\* impl AddAssign<A> for AST: ast1 += ast2, the new value of ast1
add_assign(self, rhs) == combine(self, rhs)

---------------------------------------------------------------------------
(* Dynamic values, evaluation errors and results.                          *)

\* Dynamic: (), INT, arrays and function pointers.
Dynamic_UNIT == [t |-> "()", i |-> 0, arr |-> <<>>, name |-> ""]

Dynamic_from_int(n) == [t |-> "i64", i |-> n, arr |-> <<>>, name |-> ""]

Dynamic_from_array(a) == [t |-> "array", i |-> 0, arr |-> a, name |-> ""]

Dynamic_from_bool(b) == [t |-> "bool", i |-> IF b THEN 1 ELSE 0, arr |-> <<>>, name |-> ""]

Dynamic_from_str(text) == [t |-> "string", i |-> 0, arr |-> <<>>, name |-> text]

\* struct FnPtr(name, curry): the name of a function and curried arguments.
FnPtr(name, curry) == [name |-> name, curry |-> curry]

NoFnPtr == FnPtr("", <<>>)

\* Dynamic::from(fn_ptr)
Dynamic_from_fn_ptr(fn_ptr) == [t |-> "Fn", i |-> 0, arr |-> fn_ptr.curry, name |-> fn_ptr.name]

\* Dynamic::cast::<FnPtr>()
Dynamic_as_fn_ptr(v) == FnPtr(v.name, v.arr)

\* Dynamic::try_cast::<T>(): an Option, <<v>> for Some(v) and <<>> for None.
try_cast(v, T) == IF T = "Dynamic" \/ v.t = T THEN <<v>> ELSE <<>>

\* EvalAltResult, without positions.  NoError stands for the absence of one.
EvalError(kind, name, detail, value, inner) ==
    [kind |-> kind, name |-> name, detail |-> detail, value |-> value, inner |-> inner,
     sig |-> <<>>]

NoError == EvalError("None", "", "", Dynamic_UNIT, <<>>)

\* EvalAltResult::ErrorParsing(ParseErrorType::AssignmentToConstant(name), _)
ErrorParsing(perr) == EvalError("ErrorParsing", perr.name, perr.kind, Dynamic_UNIT, <<>>)

ErrorVariableNotFound(name) == EvalError("ErrorVariableNotFound", name, "", Dynamic_UNIT, <<>>)

ErrorAssignmentToConstant(name) ==
    EvalError("ErrorAssignmentToConstant", name, "", Dynamic_UNIT, <<>>)

\* EvalAltResult::ErrorFunctionNotFound(text, _): the text is a function name
\* (sig = <<>>) or a name with the types of the arguments (sig = <<types>>).
ErrorFunctionNotFound(name, sig) ==
    [EvalError("ErrorFunctionNotFound", name, "", Dynamic_UNIT, <<>>) EXCEPT !.sig = sig]

ErrorInFunctionCall(name, err) == EvalError("ErrorInFunctionCall", name, "", Dynamic_UNIT, <<err>>)

ErrorStackOverflow == EvalError("ErrorStackOverflow", "", "", Dynamic_UNIT, <<>>)

ErrorTooManyOperations == EvalError("ErrorTooManyOperations", "", "", Dynamic_UNIT, <<>>)

\* EvalAltResult::ErrorTerminated(token, _)
ErrorTerminated(value) == EvalError("ErrorTerminated", "", "", value, <<>>)

ErrorUnboundThis == EvalError("ErrorUnboundThis", "", "", Dynamic_UNIT, <<>>)

\* EvalAltResult::ErrorMismatchDataType(expected type, actual type, _)
ErrorMismatchDataType(T, typ) == EvalError("ErrorMismatchDataType", T, typ, Dynamic_UNIT, <<>>)

ErrorRuntime(value) == EvalError("ErrorRuntime", "", "", value, <<>>)

ErrorArrayBounds(len, idx) == EvalError("ErrorArrayBounds", "", "", Dynamic_from_int(idx), <<>>)

ErrorIndexingType(typ) == EvalError("ErrorIndexingType", typ, "", Dynamic_UNIT, <<>>)

\* EvalAltResult::ErrorMismatchOutputType(requested type, actual type, _)
ErrorMismatchOutputType(T, typ) == EvalError("ErrorMismatchOutputType", T, typ, Dynamic_UNIT, <<>>)

\* Result<Dynamic, Box<EvalAltResult>>
Ok(value) == [err |-> NoError, value |-> value]

Err(err) == [err |-> err, value |-> Dynamic_UNIT]

is_ok(r) == r.err.kind = "None"

---------------------------------------------------------------------------
(* Scope: an ordered stack of (name, kind, value) entries; the last entry  *)
(* is the top and a lookup by name finds the topmost entry of that name.   *)

Scope_new == <<>>

ScopeEntry(name, typ, value) == [name |-> name, typ |-> typ, value |-> value]

\* Scope::push(name, value)
Scope_push(scope, name, value) == Append(scope, ScopeEntry(name, "Normal", value))

\* Scope::push_constant(name, value)
Scope_push_constant(scope, name, value) == Append(scope, ScopeEntry(name, "Constant", value))

SetMax(S) == CHOOSE m \in S : \A k \in S : k <= m

\* Scope::get_index(name): the position of the topmost entry called name,
\* 0 when there is none.
Scope_get_index(scope, name) ==
    LET found == {k \in DOMAIN scope : scope[k].name = name}
    IN  IF found = {} THEN 0 ELSE SetMax(found)

\* Scope::rewind(size)
Scope_rewind(scope, size) == SubSeq(scope, 1, size)

---------------------------------------------------------------------------
(* The parser: a script is a set of function definitions and a list of     *)
(* global statements whose variables carry no index yet.  The parser keeps *)
(* a stack of the variables the script has declared so far, resolves each  *)
(* variable access to an offset from the top of that stack and rejects an  *)
(* assignment to a variable that resolves to a constant.                   *)

Script(fns, stmts) == [fns |-> fns, stmts |-> stmts]

\* ParseErrorType::AssignmentToConstant(name)
AssignmentToConstant(name) == [kind |-> "AssignmentToConstant", name |-> name]

NoParseError == [kind |-> "None", name |-> ""]

\* ParseState::access_var: the offset of name from the top of the stack
\* (1 is the top), 0 when the script has not declared it.
access_var(stack, name) ==
    LET found == {k \in DOMAIN stack : stack[k].name = name}
    IN  IF found = {} THEN 0 ELSE Len(stack) - SetMax(found) + 1

\* An argument or array item: a literal or a variable access.
parse_primary(stack, expr) ==
    IF expr.e = "Variable" THEN [expr EXCEPT !.index = access_var(stack, expr.name)]
    ELSE expr

RECURSIVE parse_expr(_, _)

parse_expr(stack, expr) ==
    CASE expr.e = "Variable" -> parse_primary(stack, expr)
      [] expr.e = "Index"    ->
            [expr EXCEPT !.index = access_var(stack, expr.name),
                         !.args = <<parse_primary(stack, @[1])>>]
      [] expr.e \in {"FnCall", "Array"} ->
            [expr EXCEPT !.args = [k \in DOMAIN expr.args |-> parse_expr(stack, expr.args[k])]]
      [] OTHER -> expr

\* make_assignment_stmt: var = rhs and var[idx] = rhs with var resolved to a
\* constant of the script are rejected.
make_assignment_stmt(stack, lhs, rhs) ==
    IF lhs.index # 0 /\ stack[Len(stack) - lhs.index + 1].typ = "Constant"
    THEN [err |-> AssignmentToConstant(lhs.name), stmt |-> Noop, stack |-> stack]
    ELSE [err |-> NoParseError, stmt |-> Assignment(lhs, rhs), stack |-> stack]

\* The outcome of parsing one statement: the statement and the stack after
\* it, or an error.
ParsedStmt(err, stmt, stack) == [err |-> err, stmt |-> stmt, stack |-> stack]

\* One statement whose expression has been parsed to expr.
parse_stmt_of(stack, stmt, expr) ==
    CASE stmt.s = "Let" ->
            ParsedStmt(NoParseError, Let(stmt.name, expr),
                       Append(stack, [name |-> stmt.name, typ |-> "Normal"]))
      [] stmt.s = "Const" ->
            ParsedStmt(NoParseError, Const(stmt.name, expr),
                       Append(stack, [name |-> stmt.name, typ |-> "Constant"]))
      [] stmt.s = "Assignment" ->
            make_assignment_stmt(stack, parse_expr(stack, stmt.lhs), expr)
      [] OTHER ->
            ParsedStmt(NoParseError, [stmt EXCEPT !.expr = expr], stack)

\* The outcome of parsing a statement list: the statements, or an error.
ParsedBlock(err, statements) == [err |-> err, statements |-> statements]

\* The statement stmt in front of the parsed statements rest.
parse_block_join(stmt, rest) ==
    IF rest.err # NoParseError THEN rest
    ELSE ParsedBlock(NoParseError, <<stmt>> \o rest.statements)

\* A statement with blocks, its blocks parsed to body and alt: the variables
\* the blocks declare are not visible after the statement.
parse_blocks_of(stack, stmt, body, alt) ==
    CASE body.err # NoParseError -> ParsedStmt(body.err, Noop, stack)
      [] alt.err # NoParseError -> ParsedStmt(alt.err, Noop, stack)
      [] OTHER -> ParsedStmt(NoParseError,
                             [stmt EXCEPT !.body = body.statements, !.alt = alt.statements],
                             stack)

RECURSIVE parse_stmt(_, _)
RECURSIVE parse_block(_, _)
RECURSIVE parse_block_after(_, _)

\* parse_stmt: the handler of a try statement sees the error variable.
parse_stmt(stack, stmt) ==
    CASE stmt.s = "TryCatch" ->
            parse_blocks_of(stack, stmt, parse_block(stack, stmt.body),
                            parse_block(Append(stack, [name |-> stmt.name, typ |-> "Normal"]),
                                        stmt.alt))
      [] stmt.s = "IfThenElse" ->
            parse_blocks_of(stack, [stmt EXCEPT !.expr = parse_expr(stack, stmt.expr)],
                            parse_block(stack, stmt.body), parse_block(stack, stmt.alt))
      [] OTHER -> parse_stmt_of(stack, stmt, parse_expr(stack, stmt.expr))

\* The statements stmts after the parsed statement one: an error in one ends
\* the parse.
parse_block_after(one, stmts) ==
    IF one.err # NoParseError THEN ParsedBlock(one.err, <<>>)
    ELSE parse_block_join(one.stmt, parse_block(one.stack, stmts))

\* A statement list, parsed in order.
parse_block(stack, stmts) ==
    IF stmts = <<>> THEN ParsedBlock(NoParseError, <<>>)
    ELSE parse_block_after(parse_stmt(stack, Head(stmts)), Tail(stmts))

\* The function def with its body parsed to body.
ParsedFn(def, body) == [err |-> body.err, def |-> [def EXCEPT !.body = body.statements]]

\* parse_fn: a function body is parsed against a stack of its parameters
\* only; the variables of the enclosing script are not visible in it.
parse_fn(def) ==
    ParsedFn(def, parse_block([k \in DOMAIN def.params |->
                                  [name |-> def.params[k], typ |-> "Normal"]],
                              def.body))

\* The AST of the parsed functions fns and the parsed global statements
\* block, or the error of one of them.
parse_result(fns, block) ==
    CASE \E f \in fns : f.err # NoParseError ->
            [err |-> (CHOOSE f \in fns : f.err # NoParseError).err,
             ast |-> AST_new(<<>>, Module_default)]
      [] block.err # NoParseError ->
            [err |-> block.err, ast |-> AST_new(<<>>, Module_default)]
      [] OTHER ->
            [err |-> NoParseError,
             ast |-> AST_new(block.statements, ModuleOf({f.def : f \in fns}))]

---------------------------------------------------------------------------
(* Operations on the nodes of an AST (src/ast.rs, impl Expr, impl Stmt and *)
(* AST::extract_variables).  The block of an if, while, loop, for or try   *)
(* statement is its list of statements.                                    *)

\* Dynamic::from(char)
Dynamic_from_char(c) == [t |-> "char", i |-> 0, arr |-> <<>>, name |-> c]

\* Dynamic::from(Map): name holds the keys, arr the values
Dynamic_from_map(keys, values) == [t |-> "map", i |-> 0, arr |-> values, name |-> keys]

\* In place of the value of a call: the call unwound with a panic.
Unwound(message) == [t |-> "panic", i |-> 0, arr |-> <<>>, name |-> message]

RECURSIVE is_constant(_)

\* Expr::is_constant(&self)
is_constant(expr) ==
    CASE expr.e = "Expr" -> is_constant(expr.args[1])
      [] expr.e \in {"IntegerConstant", "CharConstant", "StringConstant", "FnPointer",
                     "BoolConstant", "Unit"} -> TRUE
      [] expr.e \in {"Array", "Map"} -> \A k \in DOMAIN expr.args : is_constant(expr.args[k])
      [] expr.e = "In" ->
            /\ expr.args[1].e \in {"StringConstant", "CharConstant"}
            /\ expr.args[2].e = "StringConstant"
      [] OTHER -> FALSE

\* Option::unwrap(): the value of Some, a panic on None.
unwrap(option) ==
    IF option = <<>> THEN Unwound("called Option::unwrap() on a None value")
    ELSE option[1]

\* Some(whole), unless the evaluation of an item unwound.
collected(items, whole) ==
    IF \E k \in DOMAIN items : items[k].t = "panic"
    THEN <<items[CHOOSE k \in DOMAIN items :
                    items[k].t = "panic" /\ \A j \in 1..(k - 1) : items[j].t # "panic"]>>
    ELSE <<whole>>

RECURSIVE get_constant_value(_)

\* Expr::get_constant_value(&self): <<>> for None, <<value>> for Some(value)
\* and <<Unwound(message)>> for a call that panics.
get_constant_value(expr) ==
    CASE expr.e = "Expr" -> get_constant_value(expr.args[1])
      [] expr.e = "IntegerConstant" -> <<Dynamic_from_int(expr.i)>>
      [] expr.e = "CharConstant" -> <<Dynamic_from_char(expr.name)>>
      [] expr.e = "StringConstant" -> <<Dynamic_from_str(expr.name)>>
      [] expr.e = "FnPointer" -> <<Dynamic_from_fn_ptr(FnPtr(expr.name, <<>>))>>
      [] expr.e = "BoolConstant" -> <<Dynamic_from_bool(expr.i = 1)>>
      [] expr.e = "Unit" -> <<Dynamic_UNIT>>
      [] expr.e = "Array" /\ \A k \in DOMAIN expr.args : is_constant(expr.args[k]) ->
            collected([k \in DOMAIN expr.args |-> unwrap(get_constant_value(expr.args[k]))],
                      Dynamic_from_array([k \in DOMAIN expr.args |->
                                            unwrap(get_constant_value(expr.args[k]))]))
      [] expr.e = "Map" /\ \A k \in DOMAIN expr.args : is_constant(expr.args[k]) ->
            collected([k \in DOMAIN expr.args |-> unwrap(get_constant_value(expr.args[k]))],
                      Dynamic_from_map(expr.name,
                                       [k \in DOMAIN expr.args |->
                                          unwrap(get_constant_value(expr.args[k]))]))
      [] OTHER -> <<>>

RECURSIVE Expr_position(_)

\* Expr::position(&self)
Expr_position(expr) ==
    CASE expr.e = "Expr" -> Expr_position(expr.args[1])
      [] expr.e \in {"And", "Or", "In", "Dot", "Index"} -> Expr_position(expr.args[1])
      [] OTHER -> expr.pos

RECURSIVE Expr_set_position(_, _)

\* Expr::set_position(&mut self, new_pos): the node after the call
Expr_set_position(expr, new_pos) ==
    IF expr.e = "Expr"
    THEN [expr EXCEPT !.args = <<Expr_set_position(@[1], new_pos)>>]
    ELSE [expr EXCEPT !.pos = new_pos]

\* Stmt::position(&self)
Stmt_position(stmt) == IF stmt.s = "Expr" THEN Expr_position(stmt.expr) ELSE stmt.pos

\* Stmt::set_position(&mut self, new_pos): the node after the call
Stmt_set_position(stmt, new_pos) ==
    IF stmt.s = "Expr"
    THEN [stmt EXCEPT !.expr = Expr_set_position(@, new_pos)]
    ELSE [stmt EXCEPT !.pos = new_pos]

RECURSIVE Expr_is_pure(_)
RECURSIVE Stmt_is_pure(_)

\* Expr::is_pure(&self): the rhs of an Index of the model is a literal.
Expr_is_pure(expr) ==
    CASE expr.e = "Expr" -> Expr_is_pure(expr.args[1])
      [] expr.e \in {"Array", "Map", "Index", "And", "Or", "In"} ->
            \A k \in DOMAIN expr.args : Expr_is_pure(expr.args[k])
      [] expr.e = "Stmt" -> \A k \in DOMAIN expr.args : Stmt_is_pure(expr.args[k])
      [] expr.e = "Variable" -> TRUE
      [] OTHER -> is_constant(expr)

\* Stmt::is_pure(&self)
Stmt_is_pure(stmt) ==
    CASE stmt.s = "Noop" -> TRUE
      [] stmt.s = "Expr" -> Expr_is_pure(stmt.expr)
      [] stmt.s \in {"IfThenElse", "While", "For"} ->
            /\ Expr_is_pure(stmt.expr)
            /\ \A k \in DOMAIN stmt.body : Stmt_is_pure(stmt.body[k])
            /\ \A k \in DOMAIN stmt.alt : Stmt_is_pure(stmt.alt[k])
      [] stmt.s \in {"Loop", "Block", "TryCatch"} ->
            /\ \A k \in DOMAIN stmt.body : Stmt_is_pure(stmt.body[k])
            /\ \A k \in DOMAIN stmt.alt : Stmt_is_pure(stmt.alt[k])
      [] OTHER -> FALSE

\* defs and vars of extract_variables: the names defined and referenced.
Extracted(defs, refs) == [defs |-> defs, vars |-> refs]

RECURSIVE extract_expr_variables(_, _)
RECURSIVE extract_exprs(_, _)
RECURSIVE extract_stmt_variables(_, _)
RECURSIVE extract_stmts(_, _)

\* extract_expr_variables(expr, defs, vars): defs and vars after the call.
\* The rhs of an Index of the model is a literal.
extract_expr_variables(expr, found) ==
    CASE expr.e = "Variable" -> [found EXCEPT !.vars = @ \cup {expr.name}]
      [] expr.e = "Stmt" -> extract_stmts(expr.args, found)
      [] expr.e \in {"Expr", "FnCall", "Dot", "Index", "Array", "Map", "And", "Or"} ->
            extract_exprs(expr.args, found)
      [] expr.e = "In" -> extract_expr_variables(expr.args[2], found)
      [] OTHER -> found

\* for_each(|e| extract_expr_variables(e, defs, vars))
extract_exprs(exprs, found) ==
    IF exprs = <<>> THEN found
    ELSE extract_exprs(Tail(exprs), extract_expr_variables(Head(exprs), found))

\* extract_stmt_variables(stmt, defs, vars): defs and vars after the call.
extract_stmt_variables(stmt, found) ==
    CASE stmt.s \in {"IfThenElse", "While", "For"} ->
            extract_stmts(stmt.alt,
                          extract_stmts(stmt.body, extract_expr_variables(stmt.expr, found)))
      [] stmt.s \in {"Loop", "Block", "TryCatch"} ->
            extract_stmts(stmt.alt, extract_stmts(stmt.body, found))
      [] stmt.s \in {"Let", "Const"} ->
            [extract_expr_variables(stmt.expr, found) EXCEPT !.defs = @ \cup {stmt.name}]
      [] stmt.s = "Assignment" ->
            extract_expr_variables(stmt.expr, extract_expr_variables(stmt.lhs, found))
      [] stmt.s = "Expr" -> extract_expr_variables(stmt.expr, found)
      [] OTHER -> found

\* for_each(|s| extract_stmt_variables(s, defs, vars))
extract_stmts(statements, found) ==
    IF statements = <<>> THEN found
    ELSE extract_stmts(Tail(statements), extract_stmt_variables(Head(statements), found))

\* AST::extract_variables(&self) -> HashSet<String>
extract_variables(self) ==
    extract_stmts(self.statements, Extracted({}, {})).vars
        \ extract_stmts(self.statements, Extracted({}, {})).defs

---------------------------------------------------------------------------
(* The optimizer: at OptimizationLevel::Simple an operator applied to      *)
(* literals is replaced by its value; at OptimizationLevel::Full a read of *)
(* a variable that the script does not declare and that the scope holds as *)
(* a constant is replaced by the literal of its value as well.  The rules  *)
(* that drop code without effect, and the propagation of the constants a   *)
(* script declares itself, are left out: they do not change a result.      *)

\* Module::get_script_fn(name, num_params, public_only): an Option.
get_script_fn(lib, name, num, public_only) ==
    LET k == calc_script_fn_hash(name, num)
    IN  IF k \in DOMAIN lib /\ (~public_only \/ lib[k].access = "Public")
        THEN <<lib[k]>>
        ELSE <<>>

\* map_dynamic_to_expr(value, pos): the literal of a value, an Option.
map_dynamic_to_expr(value) ==
    CASE value.t = "i64" -> <<IntegerConstant(value.i)>>
      [] value.t = "()" -> <<Unit>>
      [] value.t = "bool" -> <<BoolConstant(value.i = 1)>>
      [] value.t = "array" /\ \A k \in DOMAIN value.arr : value.arr[k].t = "i64" ->
            <<Array([k \in DOMAIN value.arr |-> IntegerConstant(value.arr[k].i)])>>
      [] OTHER -> <<>>

\* The literal the optimizer has for the variable name: the scope holds it
\* as a constant.  An Option.
find_constant(constants, name) ==
    IF Scope_get_index(constants, name) # 0
       /\ constants[Scope_get_index(constants, name)].typ = "Constant"
    THEN map_dynamic_to_expr(constants[Scope_get_index(constants, name)].value)
    ELSE <<>>

\* The built-in operators +, > and < of two INTs.
call_builtin_fn(name, args) ==
    CASE name = "+" /\ Len(args) = 2 /\ args[1].t = "i64" /\ args[2].t = "i64" ->
            Ok(Dynamic_from_int(args[1].i + args[2].i))
      [] name = ">" /\ Len(args) = 2 /\ args[1].t = "i64" /\ args[2].t = "i64" ->
            Ok(Dynamic_from_bool(args[1].i > args[2].i))
      [] name = "<" /\ Len(args) = 2 /\ args[1].t = "i64" /\ args[2].t = "i64" ->
            Ok(Dynamic_from_bool(args[1].i < args[2].i))
      [] OTHER ->
            Err(ErrorFunctionNotFound(name, <<[k \in DOMAIN args |-> args[k].t]>>))

\* A call whose arguments have been optimized: a built-in operator applied
\* to INT literals, that no function of the script stands for, is replaced
\* by the literal of its value.
optimize_call(lib, expr) ==
    IF /\ \A k \in DOMAIN expr.args : expr.args[k].e = "IntegerConstant"
       /\ get_script_fn(lib, expr.name, Len(expr.args), FALSE) = <<>>
       /\ is_ok(call_builtin_fn(expr.name,
                                [k \in DOMAIN expr.args |-> get_constant_value(expr.args[k])[1]]))
    THEN map_dynamic_to_expr(
             call_builtin_fn(expr.name,
                             [k \in DOMAIN expr.args |-> get_constant_value(expr.args[k])[1]]).value)[1]
    ELSE expr

RECURSIVE optimize_expr(_, _, _)
RECURSIVE optimize_stmt(_, _, _)

\* optimize_expr: an index 0 marks a variable the script has not declared.
\* An indexed constant keeps the literal of the constant in args.
optimize_expr(constants, lib, expr) ==
    CASE expr.e = "Variable" /\ expr.index = 0 /\ find_constant(constants, expr.name) # <<>> ->
            find_constant(constants, expr.name)[1]
      [] expr.e = "Index" /\ expr.index = 0 /\ expr.args[1].e = "Variable"
         /\ find_constant(constants, expr.name) # <<>> ->
            [expr EXCEPT !.args = find_constant(constants, expr.name)]
      [] expr.e = "Array" ->
            [expr EXCEPT !.args = [k \in DOMAIN expr.args |->
                                     optimize_expr(constants, lib, expr.args[k])]]
      [] expr.e = "FnCall" ->
            optimize_call(lib, [expr EXCEPT !.args = [k \in DOMAIN expr.args |->
                                    optimize_expr(constants, lib, expr.args[k])]])
      [] OTHER -> expr

\* optimize_stmt: the expression and the blocks of a statement; the target
\* of an assignment is left as it is.
optimize_stmt(constants, lib, stmt) ==
    [stmt EXCEPT !.expr = optimize_expr(constants, lib, @),
                 !.body = [k \in DOMAIN @ |-> optimize_stmt(constants, lib, @[k])],
                 !.alt = [k \in DOMAIN @ |-> optimize_stmt(constants, lib, @[k])]]

\* optimize_into_ast(engine, scope, statements, lib, level): the functions
\* are not given the constants of the scope.
optimize_into_ast(scope, parsed, level) ==
    IF parsed.err # NoParseError \/ level = "None" THEN parsed
    ELSE [parsed EXCEPT !.ast.statements =
             [k \in DOMAIN @ |->
                 optimize_stmt(IF level = "Full" THEN scope ELSE Scope_new,
                               parsed.ast.lib, @[k])]]

\* Engine::parse(stream, scope, optimization_level): the scope is consulted
\* by the optimizer only.
parse(script, scope, optimization_level) ==
    optimize_into_ast(scope,
                      parse_result({parse_fn(def) : def \in script.fns},
                                   parse_block(<<>>, script.stmts)),
                      optimization_level)

---------------------------------------------------------------------------
(* The evaluator: statements and expressions are evaluated against a Scope *)
(* and the function library of the AST.  An evaluation yields the scope    *)
(* after it, the value bound to `this` after it, the state of the run, a   *)
(* result and the number of statements it started.                         *)

\* Where a variable access finds its entry: by the offset the parser
\* resolved, else by name from the top of the scope; 0 when not found.
search_scope(scope, expr) ==
    IF expr.index > 0 /\ expr.index <= Len(scope)
    THEN Len(scope) - expr.index + 1
    ELSE Scope_get_index(scope, expr.name)

\* struct State { operations, .. } of one evaluation run.  Threaded with it
\* are what is observed of the run from outside State: the operation counts
\* the progress callback was invoked with (seen), the number of script
\* function calls that are active (calls) and the most there were (deepest).
State_new == [operations |-> 0, seen |-> <<>>, calls |-> 0, deepest |-> 0]

\* Default::default() for a State in the middle of a run: the counter of
\* operations starts again, what is observed of the run goes on.
State_default(observed) == [observed EXCEPT !.operations = 0]

\* The State of the caller after a run on a State of its own.
State_restored(state, inner) == [inner EXCEPT !.operations = state.operations]

Evaluated(scope, this_ptr, state, res, executed) ==
    [scope |-> scope, this |-> this_ptr, state |-> state, res |-> res, executed |-> executed]

\* The callback registered by on_progress, called with the operation count:
\* Some(token) once the count is above its limit, None before.
progress_callback(callback, operations) ==
    IF operations > callback.limit THEN <<callback.token>> ELSE <<>>

\* The State after one more operation is counted.
Counted(err, state) == [err |-> err, state |-> state]

\* Engine::inc_operations(state): the counter goes up by one, a count above
\* the quota is an error, else the progress callback is invoked with the
\* count and a token it returns ends the run.
inc_operations(state) ==
    CASE engine.max_operations > 0 /\ state.operations + 1 > engine.max_operations ->
            Counted(ErrorTooManyOperations, [state EXCEPT !.operations = @ + 1])
      [] engine.progress = <<>> ->
            Counted(NoError, [state EXCEPT !.operations = @ + 1])
      [] progress_callback(engine.progress[1], state.operations + 1) # <<>> ->
            Counted(ErrorTerminated(progress_callback(engine.progress[1],
                                                      state.operations + 1)[1]),
                    [state EXCEPT !.operations = @ + 1,
                                  !.seen = Append(@, state.operations + 1)])
      [] OTHER ->
            Counted(NoError, [state EXCEPT !.operations = @ + 1,
                                           !.seen = Append(@, state.operations + 1)])

\* An is_catchable that lets every error be caught.
is_catchable_any(err) == TRUE

\* EvalAltResult::is_catchable: every error but the end of the run by the
\* progress callback and the exhaustion of the stack or operations quota.
is_catchable(err) ==
    err.kind \notin {"ErrorTerminated", "ErrorStackOverflow", "ErrorTooManyOperations"}

\* The State on entry to a script function and on return from it.
State_entered(state) ==
    [state EXCEPT !.calls = @ + 1,
                  !.deepest = IF state.calls + 1 > @ THEN state.calls + 1 ELSE @]

State_left(state) == [state EXCEPT !.calls = @ - 1]

\* The item of an array at the index idx.
get_indexed(value, idx) ==
    CASE value.t # "array" -> Err(ErrorIndexingType(value.t))
      [] idx < 0 \/ idx >= Len(value.arr) -> Err(ErrorArrayBounds(Len(value.arr), idx))
      [] OTHER -> Ok(value.arr[idx + 1])

\* An assignment of value to `this` or to the entry of scope the target
\* resolves to: a constant entry rejects it.
assign(scope, this_ptr, state, target, value) ==
    LET pos == search_scope(scope, target)
    IN  CASE target.name = "this" /\ this_ptr = <<>> ->
                Evaluated(scope, this_ptr, state, Err(ErrorUnboundThis), 1)
          [] target.name = "this" ->
                Evaluated(scope, <<value>>, state, Ok(Dynamic_UNIT), 1)
          [] pos = 0 ->
                Evaluated(scope, this_ptr, state, Err(ErrorVariableNotFound(target.name)), 1)
          [] scope[pos].typ = "Constant" ->
                Evaluated(scope, this_ptr, state,
                          Err(ErrorAssignmentToConstant(target.name)), 1)
          [] target.e = "Variable" ->
                Evaluated([scope EXCEPT ![pos].value = value], this_ptr, state,
                          Ok(Dynamic_UNIT), 1)
          [] scope[pos].value.t # "array" ->
                Evaluated(scope, this_ptr, state,
                          Err(ErrorIndexingType(scope[pos].value.t)), 1)
          [] target.i < 0 \/ target.i >= Len(scope[pos].value.arr) ->
                Evaluated(scope, this_ptr, state,
                          Err(ErrorArrayBounds(Len(scope[pos].value.arr), target.i)), 1)
          [] OTHER ->
                Evaluated([scope EXCEPT ![pos].value.arr[target.i + 1] = value],
                          this_ptr, state, Ok(Dynamic_UNIT), 1)

\* The outcome of a function body for the caller of the function: an error
\* is wrapped in ErrorInFunctionCall unless it is one that ends the run, and
\* the scope is rewound to its length before the call.
call_script_fn_result(fn_def, prev_scope_len, body) ==
    Evaluated(Scope_rewind(body.scope, prev_scope_len), body.this, State_left(body.state),
              CASE is_ok(body.res) -> body.res
                [] ~is_catchable(body.res.err) -> body.res
                [] OTHER -> Err(ErrorInFunctionCall(fn_def.name, body.res.err)),
              body.executed)

\* The outcome of a statement whose expression has evaluated to val.
eval_stmt_of(scope, this_ptr, stmt, val) ==
    CASE ~is_ok(val.res) -> Evaluated(scope, this_ptr, val.state, val.res, 1)
      [] stmt.s = "Expr" -> Evaluated(scope, this_ptr, val.state, val.res, 1)
      [] stmt.s = "Throw" ->
            Evaluated(scope, this_ptr, val.state, Err(ErrorRuntime(val.res.value)), 1)
      [] stmt.s = "Let" ->
            Evaluated(Scope_push(scope, stmt.name, val.res.value), this_ptr, val.state,
                      Ok(Dynamic_UNIT), 1)
      [] stmt.s = "Const" ->
            Evaluated(Scope_push_constant(scope, stmt.name, val.res.value), this_ptr,
                      val.state, Ok(Dynamic_UNIT), 1)
      [] stmt.s = "Assignment" -> assign(scope, this_ptr, val.state, stmt.lhs, val.res.value)

\* The outcome of a statement list from the outcomes of its first statement
\* and of the statements after it.
eval_statements_join(one, rest) == [rest EXCEPT !.executed = one.executed + @]

\* The outcome of a block for the statement it is the body of: the
\* variables the block declared are dropped, and the statement counts.
eval_block_result(prev_scope_len, counts, block) ==
    [block EXCEPT !.scope = Scope_rewind(@, prev_scope_len), !.executed = @ + counts]

\* The value a caught error is bound to in the handler: the value thrown,
\* or a string that describes the error.
error_value(err) ==
    IF err.kind = "ErrorRuntime" THEN err.value ELSE Dynamic_from_str(err.kind)

\* The arguments evaluated so far (first) followed by the ones after (rest).
eval_args_join(first, rest) ==
    IF ~is_ok(rest.res) THEN rest
    ELSE [rest EXCEPT !.res = Ok(Dynamic_from_array(<<first.res.value>>
                                                    \o rest.res.value.arr))]

\* The outcome of a call for the expression that makes it: the scope of the
\* expression, the State and the result of the call.
eval_call_result(scope, this_ptr, called) ==
    Evaluated(scope, this_ptr, called.state, called.res, 0)

\* What a call through a function pointer leaves behind: the pointer, the
\* argument slots and the outcome of the function.
CalledDynamic(fn_ptr, arg_values, run) ==
    [fn_ptr |-> fn_ptr, arg_values |-> arg_values, run |-> run]

\* NativeCallContext { engine, lib, .. }: State is not part of it.
NativeCallContext(lib, observed) == [lib |-> lib, observed |-> observed]

KEYWORD_IS_DEF_VAR == "is_def_var"

\* Scope::contains(name)
Scope_contains(scope, name) == Scope_get_index(scope, name) # 0

\* A Scope::contains that finds variables only, not constants.
Scope_contains_variable(scope, name) ==
    \E k \in DOMAIN scope : scope[k].name = name /\ scope[k].typ = "Normal"

\* An is_def_var that does not see constants.
is_def_var_variables_only(var_name) ==
    CASE ~is_ok(var_name.res) -> var_name
      [] var_name.res.value.t # "string" ->
            [var_name EXCEPT !.res = Err(ErrorMismatchDataType("string", var_name.res.value.t))]
      [] OTHER ->
            [var_name EXCEPT !.res = Ok(Dynamic_from_bool(
                                           Scope_contains_variable(var_name.scope,
                                                                   var_name.res.value.name)))]

\* is_def_var(name), a call the engine handles itself: whether the scope
\* of the call holds an entry of the name the argument evaluated to.
is_def_var(var_name) ==
    CASE ~is_ok(var_name.res) -> var_name
      [] var_name.res.value.t # "string" ->
            [var_name EXCEPT !.res = Err(ErrorMismatchDataType("string", var_name.res.value.t))]
      [] OTHER ->
            [var_name EXCEPT !.res = Ok(Dynamic_from_bool(
                                           Scope_contains(var_name.scope,
                                                          var_name.res.value.name)))]

RECURSIVE eval_expr(_, _, _, _, _, _)
RECURSIVE eval_expr_counted(_, _, _, _, _, _)
RECURSIVE eval_args(_, _, _, _, _, _)
RECURSIVE eval_args_after(_, _, _, _, _, _)
RECURSIVE eval_stmt(_, _, _, _, _, _)
RECURSIVE eval_stmt_counted(_, _, _, _, _, _)
RECURSIVE eval_catch(_, _, _, _, _, _)
RECURSIVE eval_branch(_, _, _, _)
RECURSIVE eval_statements(_, _, _, _, _, _)
RECURSIVE eval_statements_after(_, _, _, _)
RECURSIVE call_script_fn(_, _, _, _, _, _, _)
RECURSIVE exec_fn_call(_, _, _, _, _, _, _)
RECURSIVE exec_fn_call_args(_, _, _, _)
RECURSIVE call_native_fn(_, _, _, _)
RECURSIVE call_dynamic(_, _, _, _)

\* Engine::call_script_fn(scope, mods, state, lib, this_ptr, fn_def, args,
\* level): the parameters are pushed onto the scope the caller passes, the
\* body runs one level deeper and the scope is rewound to its length before
\* the call.
call_script_fn(scope, state, lib, this_ptr, fn_def, args, level) ==
    IF level > MaxCallLevels
    THEN Evaluated(scope, this_ptr, state, Err(ErrorStackOverflow), 0)
    ELSE call_script_fn_result(
             fn_def, Len(scope),
             eval_statements(scope \o [k \in DOMAIN args |->
                                          ScopeEntry(fn_def.params[k], "Normal", args[k])],
                             State_entered(state), lib, this_ptr, fn_def.body, level + 1))

\* A call_dynamic that clones the values of arg_values.
call_dynamic_cloned(self, context, this_ptr, arg_values) ==
    CalledDynamic(self, arg_values,
                  exec_fn_call(State_default(context.observed), context.lib, self.name,
                               this_ptr, self.curry \o arg_values, TRUE, 0))

\* A call_dynamic that puts the curried values after the arguments.
call_dynamic_curry_last(self, context, this_ptr, arg_values) ==
    CalledDynamic(self, [k \in DOMAIN arg_values |-> Dynamic_UNIT],
                  exec_fn_call(State_default(context.observed), context.lib, self.name,
                               this_ptr, arg_values \o self.curry, TRUE, 0))

\* FnPtr::call_dynamic(&self, context, this_ptr, arg_values): the curried
\* values are cloned in front of the values taken out of arg_values, the
\* function is looked up by the number of both and called as a public
\* function, with a State of its own and at level 0.
call_dynamic(self, context, this_ptr, arg_values) ==
    CalledDynamic(self, [k \in DOMAIN arg_values |-> Dynamic_UNIT],
                  exec_fn_call(State_default(context.observed), context.lib, self.name,
                               this_ptr, self.curry \o arg_values, TRUE, 0))

\* A native function the host registers with register_raw_fn:
\*     |context, args| args[0].cast::<FnPtr>().call_dynamic(context, None, [rest of args])
\* and the built-in operators.
call_native_fn(state, lib, name, args) ==
    IF name = "call_ptr" /\ Len(args) >= 1 /\ args[1].t = "Fn"
    THEN [call_dynamic(Dynamic_as_fn_ptr(args[1]), NativeCallContext(lib, state),
                       <<>>, Tail(args)).run
          EXCEPT !.state = State_restored(state, @), !.this = <<>>]
    ELSE Evaluated(Scope_new, <<>>, state, call_builtin_fn(name, args), 0)

\* Engine::exec_fn_call(mods, state, lib, fn_name, hash_script, args, ..,
\* pub_only, .., level): a script function of the library runs on a scope
\* of its own, so the caller's variables are not visible in it; else the
\* call is one of a native function.
exec_fn_call(state, lib, fn_name, this_ptr, args, pub_only, level) ==
    IF get_script_fn(lib, fn_name, Len(args), pub_only) # <<>>
    THEN call_script_fn(Scope_new, state, lib, this_ptr,
                        get_script_fn(lib, fn_name, Len(args), pub_only)[1], args, level)
    ELSE [call_native_fn(state, lib, fn_name, this_ptr \o args) EXCEPT !.this = this_ptr]

\* A call expression whose arguments have been evaluated to args.
exec_fn_call_args(lib, fn_name, args, level) ==
    IF ~is_ok(args.res) THEN args
    ELSE eval_call_result(args.scope, args.this,
                          exec_fn_call(args.state, lib, fn_name, <<>>, args.res.value.arr,
                                       FALSE, level))

\* The arguments of a call or the items of an array, evaluated in order up
\* to the first error: an array of their values.
eval_args(scope, state, lib, this_ptr, exprs, level) ==
    IF exprs = <<>>
    THEN Evaluated(scope, this_ptr, state, Ok(Dynamic_from_array(<<>>)), 0)
    ELSE eval_args_after(eval_expr(scope, state, lib, this_ptr, Head(exprs), level),
                         scope, lib, this_ptr, Tail(exprs), level)

eval_args_after(first, scope, lib, this_ptr, exprs, level) ==
    IF ~is_ok(first.res) THEN first
    ELSE eval_args_join(first, eval_args(scope, first.state, lib, this_ptr, exprs, level))

\* Engine::eval_expr: the operation is counted first.
eval_expr(scope, state, lib, this_ptr, expr, level) ==
    eval_expr_counted(scope, inc_operations(state), lib, this_ptr, expr, level)

eval_expr_counted(scope, counted, lib, this_ptr, expr, level) ==
    CASE counted.err # NoError ->
            Evaluated(scope, this_ptr, counted.state, Err(counted.err), 0)
      [] expr.e = "Unit" -> Evaluated(scope, this_ptr, counted.state, Ok(Dynamic_UNIT), 0)
      [] expr.e = "IntegerConstant" ->
            Evaluated(scope, this_ptr, counted.state, Ok(Dynamic_from_int(expr.i)), 0)
      [] expr.e = "BoolConstant" ->
            Evaluated(scope, this_ptr, counted.state, Ok(Dynamic_from_bool(expr.i = 1)), 0)
      [] expr.e = "FnPointer" ->
            Evaluated(scope, this_ptr, counted.state,
                      Ok(Dynamic_from_fn_ptr(FnPtr(expr.name, <<>>))), 0)
      [] expr.e = "Variable" /\ expr.name = "this" ->
            Evaluated(scope, this_ptr, counted.state,
                      IF this_ptr = <<>> THEN Err(ErrorUnboundThis) ELSE Ok(this_ptr[1]), 0)
      [] expr.e = "Variable" ->
            LET pos == search_scope(scope, expr)
            IN  Evaluated(scope, this_ptr, counted.state,
                          IF pos = 0 THEN Err(ErrorVariableNotFound(expr.name))
                          ELSE Ok(scope[pos].value), 0)
      [] expr.e = "Index" /\ expr.args[1].e # "Variable" ->
            Evaluated(scope, this_ptr, counted.state,
                      get_indexed(get_constant_value(expr.args[1])[1], expr.i), 0)
      [] expr.e = "Index" ->
            LET pos == search_scope(scope, expr)
            IN  Evaluated(scope, this_ptr, counted.state,
                          IF pos = 0 THEN Err(ErrorVariableNotFound(expr.name))
                          ELSE get_indexed(scope[pos].value, expr.i), 0)
      [] expr.e = "Array" ->
            eval_args(scope, counted.state, lib, this_ptr, expr.args, level)
      [] expr.e = "StringConstant" ->
            Evaluated(scope, this_ptr, counted.state, Ok(Dynamic_from_str(expr.name)), 0)
      [] expr.e = "FnCall" /\ expr.name = KEYWORD_IS_DEF_VAR /\ Len(expr.args) = 1 ->
            is_def_var(eval_expr(scope, counted.state, lib, this_ptr, expr.args[1], level))
      [] expr.e = "FnCall" /\ ~(expr.name = KEYWORD_IS_DEF_VAR /\ Len(expr.args) = 1) ->
            exec_fn_call_args(lib, expr.name,
                              eval_args(scope, counted.state, lib, this_ptr, expr.args, level),
                              level)

\* Engine::eval_stmt: the operation is counted first.
eval_stmt(scope, state, lib, this_ptr, stmt, level) ==
    eval_stmt_counted(scope, inc_operations(state), lib, this_ptr, stmt, level)

eval_stmt_counted(scope, counted, lib, this_ptr, stmt, level) ==
    CASE counted.err # NoError ->
            Evaluated(scope, this_ptr, counted.state, Err(counted.err), 1)
      [] stmt.s = "Noop" -> Evaluated(scope, this_ptr, counted.state, Ok(Dynamic_UNIT), 1)
      [] stmt.s = "TryCatch" ->
            eval_catch(eval_block_result(
                           Len(scope), 1,
                           eval_statements(scope, counted.state, lib, this_ptr, stmt.body,
                                           level)),
                       lib, stmt.name, stmt.alt, level, Len(scope))
      [] stmt.s = "IfThenElse" ->
            eval_branch(eval_expr(scope, counted.state, lib, this_ptr, stmt.expr, level),
                        lib, stmt, level)
      [] OTHER ->
            eval_stmt_of(scope, this_ptr, stmt,
                         eval_expr(scope, counted.state, lib, this_ptr, stmt.expr, level))

\* The handler of a try statement whose body has run to tried: it runs when
\* the body ended in an error that can be caught, with the variable bound
\* to the value of the error.
eval_catch(tried, lib, var, handler, level, prev_scope_len) ==
    IF is_ok(tried.res) \/ ~is_catchable(tried.res.err) THEN tried
    ELSE eval_statements_join(
             tried,
             eval_block_result(
                 prev_scope_len, 0,
                 eval_statements(Scope_push(tried.scope, var, error_value(tried.res.err)),
                                 tried.state, lib, tried.this, handler, level)))

\* The branch of an if statement whose condition has evaluated to cond.
eval_branch(cond, lib, stmt, level) ==
    CASE ~is_ok(cond.res) -> [cond EXCEPT !.executed = 1]
      [] cond.res.value.t # "bool" ->
            [cond EXCEPT !.res = Err(ErrorMismatchDataType("bool", cond.res.value.t)),
                         !.executed = 1]
      [] OTHER ->
            eval_block_result(
                Len(cond.scope), 1,
                eval_statements(cond.scope, cond.state, lib, cond.this,
                                IF cond.res.value.i = 1 THEN stmt.body ELSE stmt.alt, level))

\* The statements after the evaluated statement one: an error in one ends
\* the evaluation.
eval_statements_after(one, lib, statements, level) ==
    IF ~is_ok(one.res) \/ statements = <<>> THEN one
    ELSE eval_statements_join(one, eval_statements(one.scope, one.state, lib, one.this,
                                                   statements, level))

\* Engine::eval_statements_raw: the statements in order, up to the first
\* error; the value of the last statement is the value of the list.
eval_statements(scope, state, lib, this_ptr, statements, level) ==
    IF statements = <<>> THEN Evaluated(scope, this_ptr, state, Ok(Dynamic_UNIT), 0)
    ELSE eval_statements_after(eval_stmt(scope, state, lib, this_ptr, Head(statements), level),
                               lib, Tail(statements), level)

---------------------------------------------------------------------------
(* The host API of the Engine (src/engine_api.rs).  Each operation yields  *)
(* the scope it leaves behind, its Result and the number of statements of  *)
(* the script (or function body) whose evaluation was started.             *)

\* Engine::compile_with_scope_and_optimization_level: lex, then parse.
compile_with_scope_and_optimization_level(scope, script, optimization_level) ==
    parse(script, scope, optimization_level)

\* A compile_with_scope that keeps the scope from the parser.
compile_with_scope_unscoped(scope, script) ==
    compile_with_scope_and_optimization_level(Scope_new, script, engine.optimization_level)

\* Engine::compile_with_scope
compile_with_scope(scope, script) ==
    compile_with_scope_and_optimization_level(scope, script, engine.optimization_level)

\* Engine::compile
compile(script) == compile_with_scope(Scope_new, script)

\* Engine::eval_ast_with_scope_raw
eval_ast_with_scope_raw(scope, ast) ==
    eval_statements(scope, State_new, ast.lib, <<>>, ast.statements, 0)

\* The conversion of a raw result to the type T the caller asks for.
cast_result(raw, T) ==
    IF ~is_ok(raw.res) THEN raw
    ELSE IF try_cast(raw.res.value, T) # <<>>
    THEN [raw EXCEPT !.res = Ok(try_cast(raw.res.value, T)[1])]
    ELSE [raw EXCEPT !.res = Err(ErrorMismatchOutputType(T, raw.res.value.t))]

\* Result::map(|_| ()): the value is thrown away, an error is kept.
discard_value(raw) ==
    IF is_ok(raw.res) THEN [raw EXCEPT !.res = Ok(Dynamic_UNIT)] ELSE raw

\* The ? operator on a compiled script: a ParseError is returned as
\* ErrorParsing with the scope untouched, else the evaluation run is.
try_compiled(scope, compiled, run) ==
    IF compiled.err # NoParseError
    THEN Evaluated(scope, <<>>, State_new, Err(ErrorParsing(compiled.err)), 0)
    ELSE run

\* An eval_ast_with_scope that throws the value away, as consume does.
eval_ast_with_scope_discard(scope, ast, T) == discard_value(eval_ast_with_scope_raw(scope, ast))

\* Engine::eval_ast_with_scope::<T>
eval_ast_with_scope(scope, ast, T) == cast_result(eval_ast_with_scope_raw(scope, ast), T)

\* An eval_with_scope that evaluates an empty AST when the script does not
\* compile (unwrap_or_default in place of the ? operator).
eval_with_scope_unwrap_or_default(scope, script, T) ==
    eval_ast_with_scope(scope, compile_with_scope_and_optimization_level(scope, script,
                                              engine.optimization_level).ast, T)

\* Engine::eval_with_scope::<T>: a script that does not compile is not
\* evaluated.
eval_with_scope(scope, script, T) ==
    try_compiled(scope,
                 compile_with_scope_and_optimization_level(scope, script,
                                                           engine.optimization_level),
                 eval_ast_with_scope(scope,
                                     compile_with_scope_and_optimization_level(scope, script,
                                              engine.optimization_level).ast,
                                     T))

\* Engine::eval::<T>: the scope is a new one, dropped at the end.
eval(script, T) == eval_with_scope(Scope_new, script, T)

\* A consume_ast_with_scope that throws the error away with the value.
consume_ast_with_scope_ok(scope, ast) ==
    [eval_statements(scope, State_new, ast.lib, <<>>, ast.statements, 0)
     EXCEPT !.res = Ok(Dynamic_UNIT)]

\* Engine::consume_ast_with_scope
consume_ast_with_scope(scope, ast) ==
    discard_value(eval_statements(scope, State_new, ast.lib, <<>>, ast.statements, 0))

\* The scope of the caller with the outcome of a run on another scope.
on_scope(scope, run) == [run EXCEPT !.scope = scope]

\* A consume_with_scope that runs the script on a scope of its own.
consume_with_scope_own_scope(scope, script) ==
    try_compiled(scope, parse(script, scope, engine.optimization_level),
                 on_scope(scope, consume_ast_with_scope(Scope_new, parse(script, scope, engine.optimization_level).ast)))

\* Engine::consume_with_scope
consume_with_scope(scope, script) ==
    try_compiled(scope, parse(script, scope, engine.optimization_level),
                 consume_ast_with_scope(scope, parse(script, scope, engine.optimization_level).ast))

\* Engine::consume
consume(script) == consume_with_scope(Scope_new, script)

\* A call_fn_dynamic_raw that finds private functions too.
call_fn_dynamic_raw_any_access(scope, lib, name, this_ptr, args) ==
    IF get_script_fn(lib, name, Len(args), FALSE) = <<>>
    THEN Evaluated(scope, this_ptr, State_new, Err(ErrorFunctionNotFound(name, <<>>)), 0)
    ELSE call_script_fn(scope, State_new, lib, this_ptr,
                        get_script_fn(lib, name, Len(args), FALSE)[1], args, 0)

\* Engine::call_fn_dynamic_raw: only a public function of as many parameters
\* as there are arguments is found; it runs on the scope of the caller, with
\* a State of its own and at level 0.
call_fn_dynamic_raw(scope, lib, name, this_ptr, args) ==
    IF get_script_fn(lib, name, Len(args), TRUE) = <<>>
    THEN Evaluated(scope, this_ptr, State_new, Err(ErrorFunctionNotFound(name, <<>>)), 0)
    ELSE call_script_fn(scope, State_new, lib, this_ptr,
                        get_script_fn(lib, name, Len(args), TRUE)[1], args, 0)

\* What the call of a script function leaves in the argument slots of its
\* caller: Engine::call_script_fn takes the values out of the slots when it
\* binds them to the parameters, so a run that entered a function left ().
taken_by(run, arg_values) ==
    IF run.state.deepest > 0 THEN [k \in DOMAIN arg_values |-> Dynamic_UNIT] ELSE arg_values

\* A call_fn_dynamic that passes no `this` on.
call_fn_dynamic_unbound(scope, lib, name, this_ptr, arg_values) ==
    [call_fn_dynamic_raw(scope, lib, name, <<>>, arg_values) EXCEPT !.this = this_ptr]

\* Engine::call_fn_dynamic(scope, lib, name, this_ptr, arg_values)
call_fn_dynamic(scope, lib, name, this_ptr, arg_values) ==
    call_fn_dynamic_raw(scope, lib, name, this_ptr, arg_values)

\* A call_fn that returns the value without the conversion to T.
call_fn_uncast(scope, ast, name, args, T) ==
    call_fn_dynamic_raw(scope, ast.lib, name, <<>>, args)

\* Engine::call_fn::<A, T>
call_fn(scope, ast, name, args, T) ==
    cast_result(call_fn_dynamic_raw(scope, ast.lib, name, <<>>, args), T)

---------------------------------------------------------------------------
(* The ASTs the operations are applied to.                                 *)

\* Function definitions the operand ASTs are built from.  The first two are
\* the functions foo of the documentation of AST::merge, the third is
\* error() of the documentation of AST::merge_filtered.
FnPool ==
    { ScriptFnDef("foo", "Public", <<"x">>,
                  <<Stmt_Expr(FnCall("+", <<IntegerConstant(42), Variable(0, "x")>>))>>),
      ScriptFnDef("foo", "Public", <<"n">>,
                  <<Stmt_Expr(FnCall("+", <<IntegerConstant(7), Variable(0, "n")>>))>>),
      ScriptFnDef("foo", "Private", <<"n">>, <<Stmt_Expr(Variable(0, "n"))>>),
      ScriptFnDef("foo", "Private", <<>>, <<Stmt_Expr(IntegerConstant(1))>>),
      ScriptFnDef("error", "Public", <<>>, <<Stmt_Expr(IntegerConstant(0))>>) }

Libs == { ModuleOf(S) :
            S \in {T \in SUBSET FnPool : \A f, g \in T : FnKey(f) = FnKey(g) => f = g} }

\* Global statements of the operand ASTs.
StmtPool == { Stmt_Expr(FnCall("foo", <<IntegerConstant(1)>>)),
              Let("x", IntegerConstant(1)) }

ASTs == {AST_new(s, l) : s \in SeqsUpTo(StmtPool, MaxStmts), l \in Libs}

NoAST == AST_new(<<>>, Module_default)

NoCall == [op |-> "none", filter |-> "all", ast1 |-> NoAST, ast2 |-> NoAST]

Called(op, f) == [op |-> op, filter |-> f, ast1 |-> ast1, ast2 |-> ast2]

---------------------------------------------------------------------------
(* Spec: a host that fills a Scope and evaluates scripts against it.       *)

X == Variable(0, "x")

\* The statements the scripts are made of.
ScriptStmts ==
    { Const("x", IntegerConstant(123)),
      Const("x", Array(<<IntegerConstant(1), IntegerConstant(2), IntegerConstant(3)>>)),
      Let("x", IntegerConstant(0)),
      Assignment(X, IntegerConstant(1)),
      Assignment(Index(X, 2), IntegerConstant(42)),
      Stmt_Expr(X) }

\* The scripts of at most n statements.
Scripts(n) == {Script({}, stmts) : stmts \in SeqsUpTo(ScriptStmts, n)}

NoScript == Script({}, <<>>)

\* The work of submitting a script: its statements, and no less than one.
Cost(script) == IF script.stmts = <<>> THEN 1 ELSE Len(script.stmts)

NoResult == Ok(Dynamic_UNIT)

NoLast == [op |-> "none", script |-> NoScript, name |-> "", args |-> <<>>,
           T |-> "Dynamic", scope |-> Scope_new, this |-> <<>>, fn_ptr |-> NoFnPtr]

\* The record of an API call: its arguments and the scope it was given.
Last(op, script, name, args, T, given) ==
    [op |-> op, script |-> script, name |-> name, args |-> args, T |-> T, scope |-> given,
     this |-> <<>>, fn_ptr |-> NoFnPtr]

\* Engine::new(), with the optimizer off: no progress callback, no quota of
\* operations (0), no indexer registered.
Engine_new ==
    [progress |-> <<>>, max_operations |-> 0, optimization_level |-> "None", indexers |-> {},
     disabled_symbols |-> {}, custom_syntax |-> {}]

\* The buffers of the caller of the last call: the argument slots, the
\* value bound to `this` and the function pointer as the call left them,
\* and the message of the panic that unwound the caller, "" when none did.
Caller(arg_values, this_ptr, fn_ptr, panic) ==
    [arg_values |-> arg_values, this |-> this_ptr, fn_ptr |-> fn_ptr, panic |-> panic]

NoCaller == Caller(<<>>, <<>>, NoFnPtr, "")

Init ==
    /\ host_scope = Scope_new
    /\ host_ast = NoAST
    /\ result = NoResult
    /\ last = NoLast
    /\ started = 0
    /\ work = 0
    /\ engine = Engine_new
    /\ caller = NoCaller
    /\ run_state = State_new
    /\ ast1 = NoAST
    /\ ast2 = NoAST
    /\ ret = NoAST
    /\ call = NoCall

\* scope.push("x", 42 as INT);
Push ==
    /\ work < MaxWork
    /\ work' = work + 1
    /\ host_scope' = Scope_push(host_scope, "x", Dynamic_from_int(42))
    /\ last' = Last("push", NoScript, "x", <<>>, "Dynamic", host_scope)
    /\ UNCHANGED <<host_ast, result, started, setVars>>

\* scope.push_constant("x", 42 as INT);
PushConstant ==
    /\ work < MaxWork
    /\ work' = work + 1
    /\ host_scope' = Scope_push_constant(host_scope, "x", Dynamic_from_int(42))
    /\ last' = Last("push_constant", NoScript, "x", <<>>, "Dynamic", host_scope)
    /\ UNCHANGED <<host_ast, result, started, setVars>>

\* The host takes the outcome of a call that was given its scope.
Returned(run, record, cost) ==
    /\ work + cost <= MaxWork
    /\ work' = work + cost
    /\ host_scope' = run.scope
    /\ result' = run.res
    /\ started' = run.executed
    /\ last' = record
    /\ UNCHANGED <<host_ast, setVars>>

\* The host takes the outcome of a call that ran on a scope of its own.
ReturnedOwnScope(run, record, cost) ==
    /\ work + cost <= MaxWork
    /\ work' = work + cost
    /\ result' = run.res
    /\ started' = run.executed
    /\ last' = record
    /\ UNCHANGED <<host_scope, host_ast, setVars>>

\* engine.eval::<INT>(script)
Eval ==
    \E script \in Scripts(MaxWork - work) :
        ReturnedOwnScope(eval(script, "i64"),
                         Last("eval", script, "", <<>>, "i64", Scope_new), Cost(script))

\* engine.eval_with_scope::<INT>(&mut scope, script)
EvalWithScope ==
    \E script \in Scripts(MaxWork - work) :
        Returned(eval_with_scope(host_scope, script, "i64"),
                 Last("eval_with_scope", script, "", <<>>, "i64", host_scope), Cost(script))

\* engine.consume(script)
Consume ==
    \E script \in Scripts(MaxWork - work) :
        ReturnedOwnScope(consume(script),
                         Last("consume", script, "", <<>>, "()", Scope_new), Cost(script))

\* engine.consume_with_scope(&mut scope, script)
ConsumeWithScope ==
    \E script \in Scripts(MaxWork - work) :
        Returned(consume_with_scope(host_scope, script),
                 Last("consume_with_scope", script, "", <<>>, "()", host_scope), Cost(script))

Next ==
    \/ Push
    \/ PushConstant
    \/ Eval
    \/ EvalWithScope
    \/ Consume
    \/ ConsumeWithScope

Spec == Init /\ [][Next]_vars

\* C29: the evaluation of a statement that Stmt::is_pure classifies as pure
\* raises no error and leaves the scope unchanged.
C29_Original ==
    (/\ last.op \in {"consume", "consume_with_scope"}
     /\ Len(last.script.stmts) = 1
     /\ Stmt_is_pure(last.script.stmts[1]))
        => /\ is_ok(result)
           /\ last.op = "consume_with_scope" => host_scope = last.scope

---------------------------------------------------------------------------
(* SpecCallFn: a host that fills a Scope, compiles a script of functions   *)
(* and calls the functions through call_fn.                                *)

Param(name) == Variable(0, name)

\* fn add1(a) { a + 1 }
Fn_add1 == ScriptFnDef("add1", "Public", <<"a">>,
                       <<Stmt_Expr(FnCall("+", <<Param("a"), IntegerConstant(1)>>))>>)

\* fn add(a, b) { a + b }
Fn_add == ScriptFnDef("add", "Public", <<"a", "b">>,
                      <<Stmt_Expr(FnCall("+", <<Param("a"), Param("b")>>))>>)

\* fn getx() { x }
Fn_getx == ScriptFnDef("getx", "Public", <<>>, <<Stmt_Expr(X)>>)

\* fn setx(a) { x = a; }
Fn_setx == ScriptFnDef("setx", "Public", <<"a">>, <<Assignment(X, Param("a"))>>)

\* private fn hidden(a) { a }
Fn_hidden == ScriptFnDef("hidden", "Private", <<"a">>, <<Stmt_Expr(Param("a"))>>)

\* fn call_hidden(a) { hidden(a) }
Fn_call_hidden == ScriptFnDef("call_hidden", "Public", <<"a">>,
                              <<Stmt_Expr(FnCall("hidden", <<Param("a")>>))>>)

\* fn rec() { rec() }
Fn_rec == ScriptFnDef("rec", "Public", <<>>, <<Stmt_Expr(FnCall("rec", <<>>))>>)

\* fn fail() { throw 1; }
Fn_fail == ScriptFnDef("fail", "Public", <<>>, <<Throw(IntegerConstant(1))>>)

\* fn unit(a) { let b = a; }
Fn_unit == ScriptFnDef("unit", "Public", <<"a">>, <<Let("b", Param("a"))>>)

\* fn bad() { const c = 1; c = 2; }
Fn_bad == ScriptFnDef("bad", "Public", <<>>,
                      <<Const("c", IntegerConstant(1)),
                        Assignment(Param("c"), IntegerConstant(2))>>)

\* The scripts the host compiles: the last one does not compile.
FnScripts ==
    { Script({Fn_add1, Fn_add, Fn_getx, Fn_setx, Fn_hidden, Fn_call_hidden,
              Fn_rec, Fn_fail, Fn_unit}, <<>>),
      Script({Fn_add1, [Fn_hidden EXCEPT !.access = "Public"],
              [Fn_getx EXCEPT !.access = "Private"]}, <<Let("x", IntegerConstant(0))>>),
      Script({Fn_add1, Fn_bad}, <<>>) }

FnNames == {"add1", "add", "getx", "setx", "hidden", "call_hidden", "rec", "fail", "unit",
            "missing"}

ArgValues == {Dynamic_from_int(1), Dynamic_from_int(41), Dynamic_UNIT}

ReturnTypes == {"i64", "Dynamic"}

\* The host keeps the AST of a script that compiled.
Compiled(compiled, record) ==
    /\ host_ast' = IF compiled.err = NoParseError THEN compiled.ast ELSE host_ast
    /\ result' = IF compiled.err = NoParseError THEN Ok(Dynamic_UNIT)
                 ELSE Err(ErrorParsing(compiled.err))
    /\ last' = record

\* let ast = engine.compile(script)?;
Compile ==
    /\ work < MaxWork
    /\ work' = work + 1
    /\ \E script \in FnScripts :
          Compiled(compile(script), Last("compile", script, "", <<>>, "Dynamic", Scope_new))
    /\ started' = 0
    /\ UNCHANGED <<host_scope, setVars>>

\* engine.call_fn::<_, T>(&mut scope, &ast, name, args)
CallFn ==
    /\ work < MaxWork
    /\ \E name \in FnNames, args \in SeqsUpTo(ArgValues, MaxArgs), T \in ReturnTypes :
          Returned(call_fn(host_scope, host_ast, name, args, T),
                   Last("call_fn", NoScript, name, args, T, host_scope), 1)

NextCallFn ==
    \/ Push
    \/ PushConstant
    \/ Compile
    \/ CallFn

SpecCallFn == Init /\ [][NextCallFn]_vars

---------------------------------------------------------------------------
(* Properties of call_fn, checked under SpecCallFn.                        *)

\* The literal that evaluates to the value v.
Literal(v) ==
    CASE v.t = "i64" -> IntegerConstant(v.i)
      [] v.t = "()"  -> Unit
      [] OTHER       -> Array([k \in DOMAIN v.arr |-> IntegerConstant(v.arr[k].i)])

\* The script made of the call expression name(a1, ..., an), with the
\* functions of the AST the host holds.
CallScript == AST_new(<<Stmt_Expr(FnCall(last.name,
                                         [k \in DOMAIN last.args |-> Literal(last.args[k])]))>>,
                      host_ast.lib)

\* The function the last call names, with as many parameters as arguments.
CalledFn == get_script_fn(host_ast.lib, last.name, Len(last.args), FALSE)

\* The variable accesses of a statement.
StmtVars(stmt) ==
    LET ofExpr(e) == IF e.e \in {"Variable", "Index"} THEN {e}
                     ELSE {e.args[k] : k \in {j \in DOMAIN e.args : e.args[j].e = "Variable"}}
    IN  ofExpr(stmt.expr) \cup ofExpr(stmt.lhs)

\* The body of the function refers to its parameters and to the variables
\* it declares only: the parser has resolved every variable access of it.
RefersToOwnVariablesOnly(fn_def) ==
    \A k \in DOMAIN fn_def.body : \A v \in StmtVars(fn_def.body[k]) : v.index # 0

(* C1, as stated: for every script-defined function f of arity n in an AST *)
(* and every list of n argument values, call_fn(scope, ast, "f", args)     *)
(* returns the same Value (or the same error) as evaluating the call       *)
(* expression f(a1, ..., an) inside the script against the same scope.     *)
C1_Original ==
    (last.op = "call_fn" /\ CalledFn # <<>>)
    => result = eval_ast_with_scope(last.scope, CallScript, last.T).res

(* C1, amended: for every public script-defined function f of arity n in   *)
(* an AST whose body refers to no variable other than its parameters and   *)
(* the variables it declares, and every list of n argument values,         *)
(* call_fn(scope, ast, "f", args) returns the same Value (or the same      *)
(* error) as evaluating the call expression f(a1, ..., an) inside the      *)
(* script against the same scope.                                          *)
C1_CallFnAgreesWithCallExpr ==
    (/\ last.op = "call_fn"
     /\ CalledFn # <<>>
     /\ CalledFn[1].access = "Public"
     /\ RefersToOwnVariablesOnly(CalledFn[1]))
    => result = eval_ast_with_scope(last.scope, CallScript, last.T).res

C1_Witness ==
    /\ last.op = "call_fn"
    /\ last.name = "add1"
    /\ last.args = <<Dynamic_from_int(41)>>
    /\ last.T = "i64"
    /\ last.scope # Scope_new
    /\ CalledFn # <<>>
    /\ RefersToOwnVariablesOnly(CalledFn[1])
    /\ result = Ok(Dynamic_from_int(42))

\* The public functions of the AST the host holds that the last call can
\* name: those of its name with as many parameters as arguments.
PublicMatches ==
    {f \in iter_script_fn(host_ast.lib) :
        f.access = "Public" /\ f.name = last.name /\ Len(f.params) = Len(last.args)}

---------------------------------------------------------------------------
(* Properties of constants, checked under Spec.                            *)

EvalOps == {"eval", "eval_with_scope", "consume", "consume_with_scope"}

WithScopeOps == {"eval_with_scope", "consume_with_scope"}

\* Statement j of stmts assigns to the variable name, directly or through
\* an index.
AssignsAt(stmts, j, name) ==
    j \in DOMAIN stmts /\ stmts[j].s = "Assignment" /\ stmts[j].lhs.name = name

\* The position of the last declaration of name before statement j, 0 when
\* the statements before j do not declare it.
LastDecl(stmts, j, name) ==
    LET decls == {k \in 1..(j - 1) : stmts[k].s \in {"Let", "Const"} /\ stmts[k].name = name}
    IN  IF decls = {} THEN 0 ELSE SetMax(decls)

\* Statement j assigns to name, which the script has declared a constant.
AssignsToConstAt(stmts, j, name) ==
    /\ AssignsAt(stmts, j, name)
    /\ LastDecl(stmts, j, name) # 0
    /\ stmts[LastDecl(stmts, j, name)].s = "Const"

(* C2: a script that declares a constant x with const and later assigns to *)
(* that x, directly or through an index, is rejected at compile time with  *)
(* ErrorParsing(AssignmentToConstant("x")): none of its statements is      *)
(* evaluated and the scope it was given is left as it was.                 *)
C2_ConstAssignRejectedAtCompileTime ==
    (/\ last.op \in EvalOps
     /\ \E j \in DOMAIN last.script.stmts : AssignsToConstAt(last.script.stmts, j, "x"))
    => /\ result = Err(ErrorParsing(AssignmentToConstant("x")))
       /\ started = 0
       /\ last.op \in WithScopeOps => host_scope = last.scope

C2_Witness ==
    /\ last.op = "consume"
    /\ Len(last.script.stmts) = 3
    /\ last.script.stmts[1].s = "Const"
    /\ last.script.stmts[2].s = "Expr"
    /\ AssignsToConstAt(last.script.stmts, 3, "x")
    /\ last.script.stmts[3].lhs.e = "Index"
    /\ result.err.kind = "ErrorParsing"

\* The script ends in a read of x, which it has declared by const x = 123,
\* and its evaluation got as far as that read.
ReadsConst123 ==
    LET stmts == last.script.stmts
        n     == Len(stmts)
    IN  /\ last.op \in {"eval", "eval_with_scope"}
        /\ n >= 2
        /\ stmts[n] = Stmt_Expr(X)
        /\ LastDecl(stmts, n, "x") # 0
        /\ stmts[LastDecl(stmts, n, "x")] = Const("x", IntegerConstant(123))
        /\ started = n

\* The script assigns to x after it has declared it by const x = 123.
AssignsConst123 ==
    LET stmts == last.script.stmts
    IN  /\ last.op \in EvalOps
        /\ \E j \in DOMAIN stmts :
              /\ AssignsToConstAt(stmts, j, "x")
              /\ stmts[LastDecl(stmts, j, "x")] = Const("x", IntegerConstant(123))
              /\ \A k \in 1..(j - 1) : ~AssignsToConstAt(stmts, k, "x")

\* The script starts with an assignment to x and assigns to no constant of
\* its own, and the scope it was given holds x as a constant of value 123
\* that an earlier script has declared.
AssignsEarlierConst123 ==
    LET pos == Scope_get_index(last.scope, "x")
    IN  /\ last.op \in WithScopeOps
        /\ pos # 0
        /\ last.scope[pos] = ScopeEntry("x", "Constant", Dynamic_from_int(123))
        /\ AssignsAt(last.script.stmts, 1, "x")
        /\ \A k \in DOMAIN last.script.stmts : ~AssignsToConstAt(last.script.stmts, k, "x")

(* C3, as stated: after const x = 123, reading x yields Int(123), and a     *)
(* statement assigning to x yields ErrorAssignmentToConstant("x").          *)
C3_Original ==
    /\ ReadsConst123 => result = Ok(Dynamic_from_int(123))
    /\ AssignsConst123 => result = Err(ErrorAssignmentToConstant("x"))

(* C3, amended: after const x = 123, reading x yields Int(123); a statement *)
(* of the same script assigning to x makes the script fail to compile with *)
(* ErrorParsing(AssignmentToConstant("x")); an assignment to x that starts  *)
(* a later script, one that compiles, evaluated against the scope that     *)
(* holds the constant yields ErrorAssignmentToConstant("x").                *)
C3_ConstReadAndAssign ==
    /\ ReadsConst123 => result = Ok(Dynamic_from_int(123))
    /\ AssignsConst123 => result = Err(ErrorParsing(AssignmentToConstant("x")))
    /\ AssignsEarlierConst123 => result = Err(ErrorAssignmentToConstant("x"))

C3_Witness ==
    /\ last.op = "eval"
    /\ last.script.stmts = <<Const("x", IntegerConstant(123)), Stmt_Expr(X)>>
    /\ result = Ok(Dynamic_from_int(123))

\* The evaluation got to statement j of the script, an assignment to x; the
\* script declares no x before it and the scope it was given holds x as a
\* constant.
AssignsToScopeConstAt(j) ==
    LET pos == Scope_get_index(last.scope, "x")
    IN  /\ last.op \in WithScopeOps
        /\ pos # 0
        /\ last.scope[pos].typ = "Constant"
        /\ AssignsAt(last.script.stmts, j, "x")
        /\ LastDecl(last.script.stmts, j, "x") = 0
        /\ started >= j

(* C4: for a host Scope holding a Constant entry x, a script evaluated     *)
(* against that scope whose evaluation comes to an assignment to that x    *)
(* fails there, at evaluation time, with ErrorAssignmentToConstant("x");    *)
(* and an evaluation leaves every Constant entry of the scope it was given *)
(* in place, with its value.                                               *)
C4_ScopeConstantKept ==
    /\ \A j \in DOMAIN last.script.stmts :
          AssignsToScopeConstAt(j) =>
              /\ result = Err(ErrorAssignmentToConstant("x"))
              /\ started = j
    /\ last.op \in WithScopeOps =>
          \A k \in DOMAIN last.scope :
              last.scope[k].typ = "Constant" =>
                  k \in DOMAIN host_scope /\ host_scope[k] = last.scope[k]

C4_Witness ==
    /\ last.op = "consume_with_scope"
    /\ last.scope = <<ScopeEntry("x", "Constant", Dynamic_from_int(42))>>
    /\ last.script.stmts = <<Stmt_Expr(X), Assignment(X, IntegerConstant(1))>>
    /\ AssignsToScopeConstAt(2)
    /\ result.err.kind = "ErrorAssignmentToConstant"
    /\ host_scope = last.scope

---------------------------------------------------------------------------
(* SpecAST: one AST operation applied to two ASTs.                         *)

InitAST ==
    /\ ast1 \in ASTs
    /\ ast2 \in ASTs
    /\ ret = NoAST
    /\ call = NoCall
    /\ host_scope = Scope_new
    /\ host_ast = NoAST
    /\ result = NoResult
    /\ last = NoLast
    /\ started = 0
    /\ work = 0
    /\ engine = Engine_new
    /\ caller = NoCaller
    /\ run_state = State_new

\* let ast = ast1.merge(&ast2);
Merge ==
    /\ call.op = "none"
    /\ ret' = merge(ast1, ast2)
    /\ call' = Called("merge", "all")
    /\ UNCHANGED <<ast1, ast2, engVars>>

\* let ast = ast1.merge_filtered(&ast2, filter);
MergeFiltered ==
    /\ call.op = "none"
    /\ \E f \in Filters :
         /\ ret' = merge_filtered(ast1, ast2, f)
         /\ call' = Called("merge_filtered", f)
    /\ UNCHANGED <<ast1, ast2, engVars>>

\* ast1.combine(ast2);
Combine ==
    /\ call.op = "none"
    /\ ast1' = combine(ast1, ast2)
    /\ call' = Called("combine", "all")
    /\ UNCHANGED <<ast2, ret, engVars>>

\* ast1.combine_filtered(ast2, filter);
CombineFiltered ==
    /\ call.op = "none"
    /\ \E f \in Filters :
         /\ ast1' = combine_filtered(ast1, ast2, f)
         /\ call' = Called("combine_filtered", f)
    /\ UNCHANGED <<ast2, ret, engVars>>

\* let ast = &ast1 + &ast2;
Add ==
    /\ call.op = "none"
    /\ ret' = add(ast1, ast2)
    /\ call' = Called("add", "all")
    /\ UNCHANGED <<ast1, ast2, engVars>>

\* ast1 += ast2;
AddAssign ==
    /\ call.op = "none"
    /\ ast1' = add_assign(ast1, ast2)
    /\ call' = Called("add_assign", "all")
    /\ UNCHANGED <<ast2, ret, engVars>>

\* let ast = ast1.clone_functions_only();
CloneFunctionsOnly ==
    /\ call.op = "none"
    /\ ret' = clone_functions_only(ast1)
    /\ call' = Called("clone_functions_only", "all")
    /\ UNCHANGED <<ast1, ast2, engVars>>

\* let ast = ast1.clone_statements_only();
CloneStatementsOnly ==
    /\ call.op = "none"
    /\ ret' = clone_statements_only(ast1)
    /\ call' = Called("clone_statements_only", "all")
    /\ UNCHANGED <<ast1, ast2, engVars>>

NextAST ==
    \/ Merge
    \/ MergeFiltered
    \/ Combine
    \/ CombineFiltered
    \/ Add
    \/ AddAssign
    \/ CloneFunctionsOnly
    \/ CloneStatementsOnly

SpecAST == InitAST /\ [][NextAST]_vars

---------------------------------------------------------------------------
(* Properties of the AST operations, checked under SpecAST.                *)

Passes(f, d) == ApplyFilter(f, d.access, d.name, Len(d.params))

\* lib holds the definition d under d's name and parameter count.
Holds(lib, d) == FnKey(d) \in DOMAIN lib /\ lib[FnKey(d)] = d

(* C5: the function library of merge(a, b) holds b's definition for every  *)
(* (name, parameter count) defined in b, a's definition for every (name,   *)
(* parameter count) defined only in a, and nothing else.                   *)
C5_MergeLibrary ==
    call.op = "merge" =>
        LET a == call.ast1.lib
            b == call.ast2.lib
        IN  /\ \A d \in iter_script_fn(b) : Holds(ret.lib, d)
            /\ \A d \in iter_script_fn(a) :
                  FnKey(d) \notin DOMAIN b => Holds(ret.lib, d)
            /\ DOMAIN ret.lib \subseteq (DOMAIN a) \cup (DOMAIN b)

\* A merge in which a function of the second AST replaced a different
\* function of the first, next to a function only the first AST has.
C5_Witness ==
    /\ call.op = "merge"
    /\ \E k \in (DOMAIN call.ast1.lib) \cap (DOMAIN call.ast2.lib) :
          call.ast1.lib[k] # call.ast2.lib[k] /\ ret.lib[k] = call.ast2.lib[k]
    /\ (DOMAIN call.ast1.lib) \ (DOMAIN call.ast2.lib) # {}

(* C6: the statement list of merge(a, b) is a's statements followed by     *)
(* b's, also when either list is empty, and a and b are left unchanged.    *)
C6_MergeStatements ==
    call.op = "merge" =>
        /\ ret.statements = call.ast1.statements \o call.ast2.statements
        /\ ast1 = call.ast1
        /\ ast2 = call.ast2

\* A merge of an AST without statements with one that has some.
C6_Witness ==
    /\ call.op = "merge"
    /\ call.ast1.statements = <<>>
    /\ Len(call.ast2.statements) = MaxStmts
    /\ ret.statements = call.ast2.statements

(* C7: merge_filtered(a, b, filter) merges into a's library only the       *)
(* functions of b that pass the filter; a function of a whose (name,       *)
(* parameter count) matches a filtered-out function of b is retained       *)
(* unchanged; b's statements are appended whatever the filter says.        *)
C7_MergeFiltered ==
    call.op = "merge_filtered" =>
        LET a == call.ast1.lib
            b == call.ast2.lib
        IN  /\ \A d \in iter_script_fn(b) :
                  Passes(call.filter, d) => Holds(ret.lib, d)
            /\ \A d \in iter_script_fn(b) :
                  ~Passes(call.filter, d) =>
                      IF FnKey(d) \in DOMAIN a
                      THEN Holds(ret.lib, a[FnKey(d)])
                      ELSE FnKey(d) \notin DOMAIN ret.lib
            /\ \A d \in iter_script_fn(a) :
                  FnKey(d) \notin DOMAIN b => Holds(ret.lib, d)
            /\ DOMAIN ret.lib \subseteq (DOMAIN a) \cup (DOMAIN b)
            /\ ret.statements = call.ast1.statements \o call.ast2.statements

\* The documentation's example: error() is merged, foo(_) of the second AST
\* is filtered away and foo(_) of the first is retained.
C7_Witness ==
    /\ call.op = "merge_filtered"
    /\ call.filter = "error0"
    /\ <<"error", 0>> \in (DOMAIN call.ast2.lib) \ (DOMAIN call.ast1.lib)
    /\ <<"foo", 1>> \in (DOMAIN call.ast1.lib) \cap (DOMAIN call.ast2.lib)
    /\ call.ast1.lib[<<"foo", 1>>] # call.ast2.lib[<<"foo", 1>>]
    /\ ret.lib[<<"foo", 1>>] = call.ast1.lib[<<"foo", 1>>]
    /\ <<"error", 0>> \in DOMAIN ret.lib
    /\ call.ast2.statements # <<>>

(* C8: in-place combine agrees with merge: after a.combine_filtered(b,     *)
(* filter) the AST a has the statements and the function library of        *)
(* a.merge_filtered(&b, filter) on the original a; &a + &b equals merge    *)
(* and a += b equals combine.                                              *)
C8_CombineAgreesWithMerge ==
    /\ call.op = "combine_filtered" =>
          ast1 = merge_filtered(call.ast1, call.ast2, call.filter)
    /\ call.op = "combine" => ast1 = merge(call.ast1, call.ast2)
    /\ call.op = "add" => ret = merge(call.ast1, call.ast2)
    /\ call.op = "add_assign" => ast1 = combine(call.ast1, call.ast2)

\* A filtered combine that dropped a function of the second AST and took
\* another, with statements on both sides.
C8_Witness ==
    /\ call.op = "combine_filtered"
    /\ call.filter = "error0"
    /\ call.ast1.statements # <<>>
    /\ call.ast2.statements # <<>>
    /\ DOMAIN call.ast2.lib = {<<"foo", 1>>, <<"error", 0>>}
    /\ DOMAIN call.ast1.lib = {}
    /\ DOMAIN ast1.lib = {<<"error", 0>>}

(* C9: clone_functions_only(a) has a function library equal to a's and an  *)
(* empty statement list, and a is unchanged.                               *)
C9_CloneFunctionsOnly ==
    call.op = "clone_functions_only" =>
        /\ ret.lib = call.ast1.lib
        /\ ret.statements = <<>>
        /\ ast1 = call.ast1

\* A clone of the functions of an AST with statements, private and public
\* functions.
C9_Witness ==
    /\ call.op = "clone_functions_only"
    /\ call.ast1.statements # <<>>
    /\ \E d \in iter_script_fn(ret.lib) : d.access = "Private"
    /\ \E d \in iter_script_fn(ret.lib) : d.access = "Public"

(* C10: clone_statements_only(a) has a statement list equal to a's and an  *)
(* empty function library, so that merging it with clone_functions_only(a) *)
(* gives the statements and the functions of a.                            *)
C10_CloneStatementsOnly ==
    /\ call.op = "clone_statements_only" =>
          /\ ret.statements = call.ast1.statements
          /\ ret.lib = Module_default
    /\ merge(clone_statements_only(ast1), clone_functions_only(ast1)) = ast1

\* A clone of the statements of an AST that has statements and functions.
C10_Witness ==
    /\ call.op = "clone_statements_only"
    /\ Len(ret.statements) = MaxStmts
    /\ call.ast1.lib # Module_default

---------------------------------------------------------------------------
(* SpecFnPtr: a host that compiles a script of functions and calls them    *)
(* through call_fn_dynamic, with and without a value bound to `this`, and  *)
(* from a native function that is handed a function pointer and calls it   *)
(* through FnPtr::call_dynamic.                                            *)

This == Variable(0, "this")

\* fn action(x) { this += x; }
Fn_action == ScriptFnDef("action", "Public", <<"x">>,
                         <<Assignment(This, FnCall("+", <<This, Param("x")>>))>>)

\* fn first(a, b) { a }
Fn_first == ScriptFnDef("first", "Public", <<"a", "b">>, <<Stmt_Expr(Param("a"))>>)

\* fn second(a, b) { b }
Fn_second == ScriptFnDef("second", "Public", <<"a", "b">>, <<Stmt_Expr(Param("b"))>>)

\* fn hop(n) { if n > 39 { call_ptr(Fn("hop"), n + -1) } else { 0 } }
\* hop(41) makes a chain of three calls.
Fn_hop ==
    ScriptFnDef("hop", "Public", <<"n">>,
                <<IfThenElse(FnCall(">", <<Param("n"), IntegerConstant(39)>>),
                             <<Stmt_Expr(FnCall("call_ptr",
                                                <<FnPointer("hop"),
                                                  FnCall("+", <<Param("n"),
                                                                IntegerConstant(-1)>>)>>))>>,
                             <<Stmt_Expr(IntegerConstant(0))>>)>>)

\* The scripts the host compiles: in the second one, second is private and
\* first has one parameter.
PtrScripts ==
    { Script({Fn_action, Fn_first, Fn_second, Fn_hop, Fn_rec, Fn_hidden}, <<>>),
      Script({Fn_action, [Fn_first EXCEPT !.params = <<"a">>],
              [Fn_second EXCEPT !.access = "Private"]}, <<>>) }

PtrNames == {"action", "first", "second", "hop", "rec", "hidden", "+"}

PtrValues == {Dynamic_from_int(1), Dynamic_from_int(41)}

\* Option<&mut Dynamic>: no value bound to `this`, or one.
ThisValues == {<<>>, <<Dynamic_from_int(1)>>}

\* The function pointers the native function is handed: a name and no more
\* curried values than the host passes arguments.
FnPtrs == {FnPtr(name, curry) : name \in PtrNames, curry \in SeqsUpTo(PtrValues, MaxArgs)}

\* let ast = engine.compile(script)?;
CompileFns ==
    /\ work < MaxWork
    /\ work' = work + 1
    /\ \E script \in PtrScripts :
          Compiled(compile(script), Last("compile", script, "", <<>>, "Dynamic", Scope_new))
    /\ started' = 0
    /\ UNCHANGED <<host_scope, setVars>>

\* The host takes the outcome of a call made with argument slots: the
\* call and every value handed over count as work.
ReturnedDynamic(run, record, after) ==
    /\ work + 1 + Len(record.args) <= MaxWork
    /\ work' = work + 1 + Len(record.args)
    /\ host_scope' = run.scope
    /\ result' = run.res
    /\ started' = run.executed
    /\ run_state' = run.state
    /\ caller' = after
    /\ last' = record
    /\ UNCHANGED <<host_ast, engine, astVars>>

\* The outcome of call_fn_dynamic for the host: run, and the slots after it.
CalledFnDynamic(run, name, this_ptr, arg_values) ==
    ReturnedDynamic(run,
                    [Last("call_fn_dynamic", NoScript, name, arg_values, "Dynamic", host_scope)
                     EXCEPT !.this = this_ptr],
                    Caller(taken_by(run, arg_values), run.this, NoFnPtr, ""))

\* engine.call_fn_dynamic(&mut scope, &ast, name, this_ptr, arg_values)
CallFnDynamic ==
    /\ work < MaxWork
    /\ \E name \in PtrNames, this_ptr \in ThisValues,
          arg_values \in SeqsUpTo(PtrValues, MaxArgs) :
          CalledFnDynamic(call_fn_dynamic(host_scope, host_ast.lib, name, this_ptr, arg_values),
                          name, this_ptr, arg_values)

\* The outcome of call_dynamic for the native function that made the call.
\* The scope of the host is not passed to the function called.
CalledFnPtr(called, fn_ptr, this_ptr, arg_values) ==
    ReturnedDynamic([called.run EXCEPT !.scope = host_scope],
                    [Last("call_dynamic", NoScript, fn_ptr.name, arg_values, "Dynamic",
                          host_scope)
                     EXCEPT !.this = this_ptr, !.fn_ptr = fn_ptr],
                    Caller(called.arg_values, called.run.this, called.fn_ptr, ""))

\* fn_ptr.call_dynamic(context, this_ptr, arg_values) in a native function
\* that the engine calls with the library of the AST the host holds.
CallDynamic ==
    /\ work < MaxWork
    /\ \E fn_ptr \in FnPtrs, this_ptr \in ThisValues,
          arg_values \in SeqsUpTo(PtrValues, MaxArgs) :
          CalledFnPtr(call_dynamic(fn_ptr, NativeCallContext(host_ast.lib, State_new),
                                   this_ptr, arg_values),
                      fn_ptr, this_ptr, arg_values)

NextFnPtr ==
    \/ Push
    \/ CompileFns
    \/ CallFnDynamic
    \/ CallDynamic

SpecFnPtr == Init /\ [][NextFnPtr]_vars

---------------------------------------------------------------------------
(* Properties of call_fn_dynamic and FnPtr::call_dynamic, checked under    *)
(* SpecFnPtr.                                                              *)

AllUnit(slots) == \A k \in DOMAIN slots : slots[k] = Dynamic_UNIT

C18_ThisBinding ==
    (/\ last.op = "call_fn_dynamic"
     /\ last.name = "action"
     /\ last.this # <<>>
     /\ PublicMatches # {})
    => /\ result = Ok(Dynamic_UNIT)
       /\ caller.this = <<Dynamic_from_int(last.this[1].i + last.args[1].i)>>

\* action called on 1 with 41.
C18_Witness ==
    /\ last.op = "call_fn_dynamic"
    /\ last.name = "action"
    /\ last.this = <<Dynamic_from_int(1)>>
    /\ last.args = <<Dynamic_from_int(41)>>
    /\ caller.this = <<Dynamic_from_int(42)>>

\* The curried values of the pointer called last, then the arguments.
CurriedArgs == last.fn_ptr.curry \o last.args

\* The public functions of the AST the host holds that the pointer called
\* last names: those with as many parameters as curried values and
\* arguments together.
PtrMatches ==
    {f \in iter_script_fn(host_ast.lib) :
        f.access = "Public" /\ f.name = last.fn_ptr.name
                            /\ Len(f.params) = Len(CurriedArgs)}

(* C19: calling a FnPtr that holds k curried values with m arguments       *)
(* invokes the function the pointer names, looked up with parameter count  *)
(* k + m, on (c1, .., ck, a1, .., am) in that order, and leaves the        *)
(* curried values of the pointer unchanged.                                *)
C19_CurriedCall ==
    last.op = "call_dynamic"
    => /\ caller.fn_ptr = last.fn_ptr
       /\ PtrMatches # {}
          => result = call_fn_dynamic_raw(Scope_new, host_ast.lib, last.fn_ptr.name,
                                          last.this, CurriedArgs).res
       /\ (PtrMatches # {} /\ last.fn_ptr.name = "first") => result = Ok(CurriedArgs[1])
       /\ (PtrMatches # {} /\ last.fn_ptr.name = "second") => result = Ok(CurriedArgs[2])

\* second called through a pointer that holds 1, with 41.
C19_Witness ==
    /\ last.op = "call_dynamic"
    /\ last.fn_ptr = FnPtr("second", <<Dynamic_from_int(1)>>)
    /\ last.args = <<Dynamic_from_int(41)>>
    /\ result = Ok(Dynamic_from_int(41))
    /\ caller.fn_ptr.curry = <<Dynamic_from_int(1)>>

(* C14: along every chain of nested script-function calls the nesting      *)
(* depth never exceeds the limit of the engine, for chains entered through *)
(* call_fn and for chains that pass through native functions which invoke  *)
(* FnPtr::call_dynamic: the call that would exceed it yields               *)
(* ErrorStackOverflow.  Direct calls nest up to MaxCallLevels + 1 deep.    *)
C14_Original == run_state.deepest <= MaxCallLevels + 1

---------------------------------------------------------------------------
(* SpecProgress: a host that sets an engine up (it registers a progress    *)
(* callback and indexers and sets a quota of operations) and evaluates     *)
(* scripts with consume.                                                   *)

\* A callback as the one of the example of on_progress: it returns a token
\* once the operation count is above its limit.
ProgressCallback(limit) == [limit |-> limit, token |-> Dynamic_from_str("Over limit")]

\* Engine::on_progress(callback)
on_progress(callback) == [engine EXCEPT !.progress = <<callback>>]

\* Engine::set_max_operations(operations)
set_max_operations(operations) == [engine EXCEPT !.max_operations = operations]

\* The outcome of a registration: the engine after it and the message of
\* the panic it ended in, "" when it returned.
Registered(self, panic) == [engine |-> self, panic |-> panic]

\* The types an indexer is registered for: the built-in containers and a
\* type of the host.
IndexedTypes == {"Array", "Map", "String", "&str", "ImmutableString", "TestStruct"}

\* A register_indexer_get that does not look for strings.
register_indexer_get_for_strings(T) ==
    CASE T = "Array" -> Registered(engine, "Cannot register indexer for arrays.")
      [] T = "Map" -> Registered(engine, "Cannot register indexer for object maps.")
      [] OTHER -> Registered([engine EXCEPT !.indexers = @ \cup {<<"FN_IDX_GET", T>>}], "")

\* Engine::register_indexer_get::<T, X, U>(callback)
register_indexer_get(T) ==
    CASE T = "Array" -> Registered(engine, "Cannot register indexer for arrays.")
      [] T = "Map" -> Registered(engine, "Cannot register indexer for object maps.")
      [] T \in {"String", "&str", "ImmutableString"} ->
            Registered(engine, "Cannot register indexer for strings.")
      [] OTHER -> Registered([engine EXCEPT !.indexers = @ \cup {<<"FN_IDX_GET", T>>}], "")

\* Engine::register_indexer_set::<T, X, U>(callback)
register_indexer_set(T) ==
    CASE T = "Array" -> Registered(engine, "Cannot register indexer for arrays.")
      [] T = "Map" -> Registered(engine, "Cannot register indexer for object maps.")
      [] T \in {"String", "&str", "ImmutableString"} ->
            Registered(engine, "Cannot register indexer for strings.")
      [] OTHER -> Registered([engine EXCEPT !.indexers = @ \cup {<<"FN_IDX_SET", T>>}], "")

\* The host after a registration: a panic unwinds it out of the call.
RegisteredBy(op, T, registered) ==
    /\ engine' = registered.engine
    /\ caller' = Caller(<<>>, <<>>, NoFnPtr, registered.panic)
    /\ last' = Last(op, NoScript, T, <<>>, "Dynamic", host_scope)

\* fn two() { 1; 2 }
Fn_two == ScriptFnDef("two", "Public", <<>>,
                      <<Stmt_Expr(IntegerConstant(1)), Stmt_Expr(IntegerConstant(2))>>)

\* The scripts the host evaluates.
ProgressScripts ==
    { \* let a = 1; let b = a + 1; b
      Script({}, <<Let("a", IntegerConstant(1)),
                   Let("b", FnCall("+", <<Variable(0, "a"), IntegerConstant(1)>>)),
                   Stmt_Expr(Variable(0, "b"))>>),
      \* try { throw 1; } catch (e) { e } 5
      Script({}, <<TryCatch(<<Throw(IntegerConstant(1))>>, "e", <<Stmt_Expr(Variable(0, "e"))>>),
                   Stmt_Expr(IntegerConstant(5))>>),
      \* fn rec() { rec() }  try { rec() } catch (e) { 7 }
      Script({Fn_rec}, <<TryCatch(<<Stmt_Expr(FnCall("rec", <<>>))>>, "e",
                                  <<Stmt_Expr(IntegerConstant(7))>>)>>),
      \* try { y } catch (e) { 7 }
      Script({}, <<TryCatch(<<Stmt_Expr(Variable(0, "y"))>>, "e",
                            <<Stmt_Expr(IntegerConstant(7))>>)>>),
      \* try { let a = 1; } catch (e) { 7 }
      Script({}, <<TryCatch(<<Let("a", IntegerConstant(1))>>, "e",
                            <<Stmt_Expr(IntegerConstant(7))>>)>>),
      \* fn two() { 1; 2 }  call_ptr(Fn("two")); 1
      Script({Fn_two}, <<Stmt_Expr(FnCall("call_ptr", <<FnPointer("two")>>)),
                         Stmt_Expr(IntegerConstant(1))>>) }

\* engine.on_progress(callback);
OnProgress ==
    /\ work < MaxWork
    /\ work' = work + 1
    /\ \E limit \in 0..MaxLimit :
          /\ engine' = on_progress(ProgressCallback(limit))
          /\ last' = Last("on_progress", NoScript, "", <<>>, "Dynamic", host_scope)
    /\ caller' = NoCaller
    /\ UNCHANGED <<host_scope, host_ast, result, started, run_state, astVars>>

\* engine.set_max_operations(operations);
SetMaxOperations ==
    /\ work < MaxWork
    /\ work' = work + 1
    /\ \E operations \in 1..MaxLimit :
          /\ engine' = set_max_operations(operations)
          /\ last' = Last("set_max_operations", NoScript, "", <<>>, "Dynamic", host_scope)
    /\ caller' = NoCaller
    /\ UNCHANGED <<host_scope, host_ast, result, started, run_state, astVars>>

\* engine.register_indexer_get(callback) for a callback on the type T
RegisterIndexerGet ==
    /\ work < MaxWork
    /\ work' = work + 1
    /\ \E T \in IndexedTypes : RegisteredBy("register_indexer_get", T, register_indexer_get(T))
    /\ UNCHANGED <<host_scope, host_ast, result, started, run_state, astVars>>

\* engine.register_indexer_set(callback) for a callback on the type T
RegisterIndexerSet ==
    /\ work < MaxWork
    /\ work' = work + 1
    /\ \E T \in IndexedTypes : RegisteredBy("register_indexer_set", T, register_indexer_set(T))
    /\ UNCHANGED <<host_scope, host_ast, result, started, run_state, astVars>>

\* engine.consume(script)
ConsumeScript ==
    /\ work < MaxWork
    /\ \E script \in ProgressScripts :
          ReturnedDynamic(on_scope(host_scope, consume(script)),
                          Last("consume", script, "", <<>>, "Dynamic", host_scope), NoCaller)

NextProgress ==
    \/ OnProgress
    \/ SetMaxOperations
    \/ RegisterIndexerGet
    \/ RegisterIndexerSet
    \/ ConsumeScript

SpecProgress == Init /\ [][NextProgress]_vars

---------------------------------------------------------------------------
(* Properties of the progress callback and of try/catch, checked under     *)
(* SpecProgress.                                                           *)

(* C11: as soon as the progress callback returns a Value v the evaluation  *)
(* aborts with ErrorTerminated(v): no further statement or operator is     *)
(* evaluated and the callback is not invoked again in that evaluation.     *)
(* The callback is invoked at every operation, so the invocation that      *)
(* returned the Value is the last one.                                     *)
C11_ProgressTerminates ==
    (last.op = "consume" /\ engine.progress # <<>>)
    => \A k \in DOMAIN run_state.seen :
          run_state.seen[k] > engine.progress[1].limit
          => /\ k = Len(run_state.seen)
             /\ result = Err(ErrorTerminated(engine.progress[1].token))

\* A run that the callback ended after it had let operations pass, in the
\* middle of a script.
C11_Witness ==
    /\ last.op = "consume"
    /\ engine.progress # <<>>
    /\ Len(run_state.seen) > 2
    /\ started < Len(last.script.stmts)
    /\ result = Err(ErrorTerminated(engine.progress[1].token))

(* C12: within a single evaluation the progress callback is invoked once   *)
(* per operation with a strictly increasing operation count, without gaps, *)
(* operations inside script functions reached through function pointers    *)
(* called from native code included.                                       *)
C12_Original ==
    last.op = "consume" => \A k \in DOMAIN run_state.seen : run_state.seen[k] = k

\* The script starts with a try statement.
StartsWithTry(script) == script.stmts # <<>> /\ Head(script.stmts).s = "TryCatch"

\* The try statement a script starts with, as compiled.
TryStmt(script) == Head(compile(script).ast.statements)

\* The outcome of the body of that statement, the statement being the first
\* operation of the run.
TriedBody(script) ==
    eval_statements(Scope_new, inc_operations(State_new).state, compile(script).ast.lib,
                    <<>>, TryStmt(script).body, 0)

\* The outcome of its handler after the body ended in the error of tried.
Handled(script, tried) ==
    eval_statements(Scope_push(Scope_new, TryStmt(script).name, error_value(tried.res.err)),
                    tried.state, compile(script).ast.lib, <<>>, TryStmt(script).alt, 0)

\* The errors that end a run whatever encloses them.
FatalKinds == {"ErrorTerminated", "ErrorStackOverflow", "ErrorTooManyOperations"}

(* C13: a try/catch statement catches every thrown or runtime error raised *)
(* in its body except the fatal kinds: ErrorTerminated and the exhaustion  *)
(* of the stack or operations quota propagate to the host and the handler  *)
(* is not run for them; for any other error the handler runs and the error *)
(* of the body does not reach the host.                                    *)
C13_TryCatch ==
    (/\ last.op = "consume"
     /\ StartsWithTry(last.script)
     /\ inc_operations(State_new).err = NoError
     /\ ~is_ok(TriedBody(last.script).res))
    => IF TriedBody(last.script).res.err.kind \in FatalKinds
       THEN /\ result = TriedBody(last.script).res
            /\ started = 1 + TriedBody(last.script).executed
            /\ run_state = TriedBody(last.script).state
       ELSE /\ result # TriedBody(last.script).res
            /\ started >= 1 + TriedBody(last.script).executed
                          + Handled(last.script, TriedBody(last.script)).executed
            /\ Handled(last.script, TriedBody(last.script)).executed >= 1
            /\ ~is_ok(Handled(last.script, TriedBody(last.script)).res)
               => result = Handled(last.script, TriedBody(last.script)).res

\* The progress callback ends the run inside the body of a try statement
\* and the error reaches the host.
C13_Witness ==
    /\ last.op = "consume"
    /\ StartsWithTry(last.script)
    /\ Len(run_state.seen) > 1
    /\ result.err.kind = "ErrorTerminated"
    /\ result = TriedBody(last.script).res

\* The types the engine has indexers of its own for.
BuiltinContainers == {"Array", "Map", "String", "&str", "ImmutableString"}

RegisterOps == {"register_indexer_get", "register_indexer_set"}

---------------------------------------------------------------------------
(* A host that sets the optimization level and compiles scripts together   *)
(* with its scope.                                                         *)

\* Engine::set_optimization_level(optimization_level)
set_optimization_level(optimization_level) ==
    [engine EXCEPT !.optimization_level = optimization_level]

\* enum OptimizationLevel
OptimizationLevel == {"None", "Simple", "Full"}

\* The scripts the host compiles: `if x > 40 { x } else { 0 }` of the
\* documentation of compile_with_scope, and reads of and writes to x.
OptScripts ==
    { Script({}, <<IfThenElse(FnCall(">", <<X, IntegerConstant(40)>>),
                              <<Stmt_Expr(X)>>, <<Stmt_Expr(IntegerConstant(0))>>)>>),
      Script({}, <<Stmt_Expr(X)>>),
      Script({}, <<Stmt_Expr(FnCall("+", <<X, IntegerConstant(1)>>))>>),
      Script({}, <<Stmt_Expr(FnCall("+", <<IntegerConstant(41), IntegerConstant(1)>>))>>),
      Script({}, <<Stmt_Expr(Index(X, 0))>>),
      Script({}, <<Let("y", X), Stmt_Expr(Variable(0, "y"))>>),
      Script({}, <<Let("x", IntegerConstant(0)), Stmt_Expr(X)>>),
      Script({}, <<Let("x", IntegerConstant(0)), Assignment(X, IntegerConstant(1))>>),
      Script({}, <<Assignment(X, IntegerConstant(1))>>) }

\* engine.set_optimization_level(level)
SetOptimizationLevel ==
    /\ work < MaxWork
    /\ work' = work + 1
    /\ \E level \in OptimizationLevel :
          /\ engine' = set_optimization_level(level)
          /\ last' = Last("set_optimization_level", NoScript, level, <<>>, "Dynamic", host_scope)
    /\ UNCHANGED <<host_scope, host_ast, result, started, caller, run_state, astVars>>

\* let ast = engine.compile_with_scope(&mut scope, script)?; the record
\* keeps the optimization level of the engine under name.
CompileWithScope ==
    /\ work < MaxWork
    /\ work' = work + 1
    /\ \E script \in OptScripts :
          Compiled(compile_with_scope(host_scope, script),
                   Last("compile_with_scope", script, engine.optimization_level, <<>>,
                        "Dynamic", host_scope))
    /\ UNCHANGED <<host_scope, started, setVars>>

NextOptimize ==
    \/ Push
    \/ PushConstant
    \/ SetOptimizationLevel
    \/ CompileWithScope

SpecOptimize == Init /\ [][NextOptimize]_vars

---------------------------------------------------------------------------
(* Properties of compile_with_scope, checked under SpecOptimize.           *)

\* The variable name of the scope is a constant.
HoldsConstant(scope, name) ==
    /\ Scope_get_index(scope, name) # 0
    /\ scope[Scope_get_index(scope, name)].typ = "Constant"

RECURSIVE AssignsTo(_, _)

\* Some statement assigns to the variable name, which the script has not
\* declared.
AssignsTo(statements, name) ==
    \E k \in DOMAIN statements :
        \/ /\ statements[k].s = "Assignment"
           /\ statements[k].lhs.name = name
           /\ statements[k].lhs.index = 0
        \/ AssignsTo(statements[k].body, name)
        \/ AssignsTo(statements[k].alt, name)

\* The engine is at OptimizationLevel::Full and has compiled the last
\* script at that level, with a scope holding the constant x.
CompiledAtFull ==
    /\ last.op = "compile_with_scope"
    /\ last.name = "Full"
    /\ engine.optimization_level = "Full"
    /\ is_ok(result)
    /\ HoldsConstant(last.scope, "x")

---------------------------------------------------------------------------
(* SpecNode: a host that holds an AST and calls the operations of its      *)
(* nodes: AST::extract_variables, Expr::get_constant_value and             *)
(* set_position followed by position.                                      *)

MaxPos == 2

\* The positions a node is given: NO_POS and the positions of a source.
Positions == NO_POS..MaxPos

Y == Variable(0, "y")

\* `"a" in "abc"`
In_a_abc == In(StringConstant("a"), StringConstant("abc"))

\* Expressions of every variant of enum Expr, each at position 1.
NodeExprs ==
    { At(e, 1) : e \in
        { IntegerConstant(1), CharConstant("a"), StringConstant("abc"), FnPointer("f"),
          BoolConstant(TRUE), BoolConstant(FALSE), Unit, X, Property("p"),
          Expr_Stmt(<<Stmt_Expr(X)>>),
          Expr_Expr(IntegerConstant(1)),
          Expr_Expr(In_a_abc),
          Array(<<IntegerConstant(1), StringConstant("abc")>>),
          Array(<<X>>),
          Array(<<In_a_abc>>),
          Map(<<"k">>, <<IntegerConstant(1)>>),
          Map(<<"k">>, <<In(CharConstant("a"), StringConstant("abc"))>>),
          FnCall("foo", <<X, Y>>),
          Dot(X, Property("p")),
          Index(X, 0),
          In_a_abc,
          In(X, Y),
          And(X, Y),
          Or(BoolConstant(TRUE), X),
          Custom("exec", <<X>>) } }

\* Statements of every variant of enum Stmt but Expr, each at position 1.
NodeStmts ==
    { At(s, 1) : s \in
        { Noop, Let("x", Y), Const("x", IntegerConstant(1)),
          Assignment(X, Y),
          IfThenElse(X, <<Stmt_Expr(Y)>>, <<>>),
          While(X, <<Assignment(Y, IntegerConstant(1))>>),
          Loop(<<Stmt_Expr(X)>>),
          For("i", X, <<Stmt_Expr(Variable(0, "i"))>>),
          Block(<<Let("y", IntegerConstant(1)), Stmt_Expr(Y)>>),
          TryCatch(<<Stmt_Expr(X)>>, "e", <<Stmt_Expr(Y)>>),
          Continue, Break, Return(X), Throw(X),
          Import(StringConstant("m"), "m"), Export("x"), Share("x") } }

\* The statement lists of the ASTs the host holds.
NodeLists ==
    {<<Stmt_Expr(e)>> : e \in NodeExprs}
        \cup {<<s>> : s \in NodeStmts}
        \cup { <<Let("x", IntegerConstant(1)), Stmt_Expr(X)>>,
               <<Stmt_Expr(X), Let("x", IntegerConstant(1))>>,
               <<Let("x", Y), Assignment(X, Y)>> }

\* The record of a call on the AST or on its statement k: the position
\* passed, the Option or Position returned (value) and the set returned
\* (names).
NodeCall(op, k, pos, value, names) ==
    [op |-> op, k |-> k, pos |-> pos, value |-> value, names |-> names]

\* let ast = AST::new(statements, Default::default());
ASTNew ==
    /\ work < MaxWork
    /\ work' = work + 1
    /\ \E statements \in NodeLists :
          /\ host_ast' = AST_new(statements, Module_default)
          /\ last' = NodeCall("new", 0, NO_POS, <<>>, {})
    /\ UNCHANGED <<host_scope, result, started, setVars>>

\* let names = ast.extract_variables();
ExtractVariables ==
    /\ work < MaxWork
    /\ host_ast.statements # <<>>
    /\ work' = work + 1
    /\ last' = NodeCall("extract_variables", 0, NO_POS, <<>>, extract_variables(host_ast))
    /\ UNCHANGED <<host_scope, host_ast, result, started, setVars>>

\* if let Stmt::Expr(e) = &ast.statements()[k] { let value = e.get_constant_value(); }
GetConstantValue ==
    /\ work < MaxWork
    /\ work' = work + 1
    /\ \E k \in DOMAIN host_ast.statements :
          /\ host_ast.statements[k].s = "Expr"
          /\ last' = NodeCall("get_constant_value", k, NO_POS,
                              get_constant_value(host_ast.statements[k].expr), {})
    /\ UNCHANGED <<host_scope, host_ast, result, started, setVars>>

\* let pos = statements[k].set_position(new_pos).position();
SetPosition ==
    /\ work < MaxWork
    /\ work' = work + 1
    /\ \E k \in DOMAIN host_ast.statements, new_pos \in Positions :
          /\ host_ast' = [host_ast EXCEPT !.statements[k] = Stmt_set_position(@, new_pos)]
          /\ last' = NodeCall("set_position", k, new_pos,
                              <<Stmt_position(Stmt_set_position(host_ast.statements[k],
                                                                new_pos))>>, {})
    /\ UNCHANGED <<host_scope, result, started, setVars>>

NextNode ==
    \/ ASTNew
    \/ ExtractVariables
    \/ GetConstantValue
    \/ SetPosition

SpecNode == Init /\ [][NextNode]_vars

---------------------------------------------------------------------------
(* Properties of the node operations, checked under SpecNode.              *)

RECURSIVE ReferencedInExpr(_)
RECURSIVE ReferencedInStmt(_)

\* The names of the variables an expression reads or writes, anywhere in it.
ReferencedInExpr(expr) ==
    (IF expr.e = "Variable" THEN {expr.name} ELSE {})
        \cup UNION { IF expr.e = "Stmt" THEN ReferencedInStmt(expr.args[k])
                     ELSE ReferencedInExpr(expr.args[k]) : k \in DOMAIN expr.args }

\* The names of the variables the expressions of a statement read or write.
ReferencedInStmt(stmt) ==
    ReferencedInExpr(stmt.lhs) \cup ReferencedInExpr(stmt.expr)
        \cup UNION {ReferencedInStmt(stmt.body[k]) : k \in DOMAIN stmt.body}
        \cup UNION {ReferencedInStmt(stmt.alt[k]) : k \in DOMAIN stmt.alt}

RECURSIVE DefinedInExpr(_)
RECURSIVE DefinedInStmt(_)

\* The names a let or const statement inside an expression defines.
DefinedInExpr(expr) ==
    UNION { IF expr.e = "Stmt" THEN DefinedInStmt(expr.args[k])
            ELSE DefinedInExpr(expr.args[k]) : k \in DOMAIN expr.args }

\* The names a statement defines with let or const, anywhere in it.
DefinedInStmt(stmt) ==
    (IF stmt.s \in {"Let", "Const"} THEN {stmt.name} ELSE {})
        \cup DefinedInExpr(stmt.lhs) \cup DefinedInExpr(stmt.expr)
        \cup UNION {DefinedInStmt(stmt.body[k]) : k \in DOMAIN stmt.body}
        \cup UNION {DefinedInStmt(stmt.alt[k]) : k \in DOMAIN stmt.alt}

\* C26: extract_variables returns exactly the names that some expression of
\* the statements reads or writes and that no definition of the script
\* binds.
C26_Original ==
    last.op = "extract_variables" =>
        last.names = UNION {ReferencedInStmt(host_ast.statements[k]) :
                              k \in DOMAIN host_ast.statements}
                        \ UNION {DefinedInStmt(host_ast.statements[k]) :
                                   k \in DOMAIN host_ast.statements}

\* The outcome of a call that returned Some(value).
ReturnedSome(outcome) == outcome # <<>> /\ outcome[1].t # "panic"

\* C27: get_constant_value returns a value exactly when is_constant holds of
\* the expression, None otherwise, and never panics.
C27_Original ==
    last.op = "get_constant_value" =>
        /\ ReturnedSome(last.value) <=> is_constant(host_ast.statements[last.k].expr)
        /\ \A k \in DOMAIN last.value : last.value[k].t # "panic"

\* C28: after n.set_position(p), n.position() returns p, for a node n of
\* any variant and any position p.
C28_Original ==
    last.op = "set_position" => last.value = <<last.pos>>

---------------------------------------------------------------------------
(* SpecTime: the operators + and - of a timestamp and a number of seconds  *)
(* (src/packages/time_basic.rs), built without the feature "unchecked".    *)
(* An Instant is a number of seconds on a clock that runs from 0 to        *)
(* MaxInstant; an INT has INT_BITS bits.                                   *)

INT_BITS == 4

MaxInstant == 9

\* The frames of add_impl and subtract_impl the stack of the thread holds.
MaxFrames == 3

MIN_INT == -(2 ^ (INT_BITS - 1))

MAX_INT == 2 ^ (INT_BITS - 1) - 1

INT == MIN_INT..MAX_INT

Instants == 0..MaxInstant

Dynamic_from_timestamp(x) == [t |-> "timestamp", i |-> x, arr |-> <<>>, name |-> ""]

\* make_arithmetic_err(message)
ErrorArithmetic(message) == EvalError("ErrorArithmetic", message, "", Dynamic_UNIT, <<>>)

\* The outcome of a call: the message of the panic that unwound it ("" when
\* it returned) and the Result it returned.
Shifted(panic, res) == [panic |-> panic, res |-> res]

\* -seconds of a build without overflow checks: two's complement.
wrapping_neg(seconds) == ((2 ^ INT_BITS - seconds + MAX_INT + 1) % 2 ^ INT_BITS) - MAX_INT - 1

\* x.checked_add(Duration::from_secs(seconds as u64)): an Option
checked_add(x, seconds) == IF x + seconds > MaxInstant THEN <<>> ELSE <<x + seconds>>

\* x.checked_sub(Duration::from_secs(seconds as u64)): an Option
checked_sub(x, seconds) == IF x - seconds < 0 THEN <<>> ELSE <<x - seconds>>

\* option.ok_or_else(|| make_arithmetic_err(..)).map(Into::<Dynamic>::into)
ok_or_else(option, message) ==
    IF option = <<>> THEN Shifted("", Err(ErrorArithmetic(message)))
    ELSE Shifted("", Ok(Dynamic_from_timestamp(option[1])))

RECURSIVE add_impl(_, _, _, _)
RECURSIVE subtract_impl(_, _, _, _)

\* add_impl(x, seconds) in the frame after `frames` frames, in a build with
\* or without overflow checks: -seconds of the least INT panics with them
\* and is the least INT without them.
add_impl(x, seconds, overflow_checks, frames) ==
    CASE frames >= MaxFrames -> Shifted("stack overflow", NoResult)
      [] seconds < 0 /\ seconds = MIN_INT /\ overflow_checks ->
            Shifted("attempt to negate with overflow", NoResult)
      [] seconds < 0 /\ ~(seconds = MIN_INT /\ overflow_checks) ->
            subtract_impl(x, wrapping_neg(seconds), overflow_checks, frames + 1)
      [] OTHER ->
            ok_or_else(checked_add(x, seconds), "Timestamp overflow when adding second(s)")

\* subtract_impl(x, seconds)
subtract_impl(x, seconds, overflow_checks, frames) ==
    CASE frames >= MaxFrames -> Shifted("stack overflow", NoResult)
      [] seconds < 0 /\ seconds = MIN_INT /\ overflow_checks ->
            Shifted("attempt to negate with overflow", NoResult)
      [] seconds < 0 /\ ~(seconds = MIN_INT /\ overflow_checks) ->
            add_impl(x, wrapping_neg(seconds), overflow_checks, frames + 1)
      [] OTHER ->
            ok_or_else(checked_sub(x, seconds), "Timestamp overflow when adding second(s)")

\* time_functions::add(x, seconds), registered as `+`
time_functions_add(x, seconds, overflow_checks) == add_impl(x, seconds, overflow_checks, 0)

\* time_functions::subtract(x, seconds), registered as `-`
time_functions_subtract(x, seconds, overflow_checks) == subtract_impl(x, seconds, overflow_checks, 0)

\* The record of a call of an operator on the timestamp x.
TimeCall(op, x, seconds, overflow_checks) ==
    [op |-> op, x |-> x, seconds |-> seconds, overflow_checks |-> overflow_checks]

\* The host takes the outcome of an operator.
ReturnedShifted(outcome, record) ==
    /\ work < MaxWork
    /\ work' = work + 1
    /\ result' = outcome.res
    /\ caller' = Caller(<<>>, <<>>, NoFnPtr, outcome.panic)
    /\ last' = record
    /\ UNCHANGED <<host_scope, host_ast, started, engine, run_state, astVars>>

\* `x + seconds`
TimeAdd ==
    /\ work < MaxWork
    /\ \E x \in Instants, seconds \in INT, overflow_checks \in BOOLEAN :
          ReturnedShifted(time_functions_add(x, seconds, overflow_checks),
                          TimeCall("+", x, seconds, overflow_checks))

\* `x - seconds`
TimeSubtract ==
    /\ work < MaxWork
    /\ \E x \in Instants, seconds \in INT, overflow_checks \in BOOLEAN :
          ReturnedShifted(time_functions_subtract(x, seconds, overflow_checks),
                          TimeCall("-", x, seconds, overflow_checks))

NextTime ==
    \/ TimeAdd
    \/ TimeSubtract

SpecTime == Init /\ [][NextTime]_vars

---------------------------------------------------------------------------
(* Properties of the timestamp operators, checked under SpecTime.          *)

\* The Result is the timestamp `shifted` or an arithmetic error.
ShiftedOrArithmeticError(res, shifted) ==
    IF is_ok(res) THEN res.value = Dynamic_from_timestamp(shifted)
    ELSE res.err.kind = "ErrorArithmetic"

\* C30: `t + n` and `t - n` return the shifted timestamp or an arithmetic
\* error for every INT n, the least one included; for n < 0, `t + n` is
\* `t - (-n)` and `t - n` is `t + (-n)`, and -n is an INT.
C30_Original ==
    /\ last.op = "+" =>
          /\ caller.panic = ""
          /\ ShiftedOrArithmeticError(result, last.x + last.seconds)
          /\ last.seconds < 0 =>
                /\ -last.seconds \in INT
                /\ Shifted(caller.panic, result)
                      = time_functions_subtract(last.x, -last.seconds, last.overflow_checks)
    /\ last.op = "-" =>
          /\ caller.panic = ""
          /\ ShiftedOrArithmeticError(result, last.x - last.seconds)
          /\ last.seconds < 0 =>
                /\ -last.seconds \in INT
                /\ Shifted(caller.panic, result)
                      = time_functions_add(last.x, -last.seconds, last.overflow_checks)

\* What holds of the operators for every INT but the least one.
TimeShiftedButForLeast ==
    last.op \in {"+", "-"} /\ last.seconds # MIN_INT => C30_Original

---------------------------------------------------------------------------
(* SpecDefVar: a host that fills a Scope and evaluates scripts that end in *)
(* a call of is_def_var (tests/constants.rs, test_var_is_def).             *)

\* The names that are asked for.
DefVarNames == {"x", "y", "z"}

\* The statements before the call: declarations at the top level of the
\* script and a declaration inside a block.
DefVarStmts ==
    { Let("x", IntegerConstant(42)),
      Const("x", IntegerConstant(42)),
      Let("y", IntegerConstant(1)),
      IfThenElse(BoolConstant(TRUE), <<Let("z", IntegerConstant(1))>>, <<>>) }

\* `is_def_var("name")`
IsDefVar(name) == Stmt_Expr(FnCall(KEYWORD_IS_DEF_VAR, <<StringConstant(name)>>))

\* engine.eval_with_scope::<bool>(&mut scope, "...; is_def_var(\"name\")"):
\* the record keeps the name asked for.
EvalIsDefVar ==
    /\ work < MaxWork
    /\ \E stmts \in SeqsUpTo(DefVarStmts, MaxWork - work - 1), name \in DefVarNames :
          Returned(eval_with_scope(host_scope, Script({}, Append(stmts, IsDefVar(name))),
                                   "bool"),
                   Last("is_def_var", Script({}, Append(stmts, IsDefVar(name))), name, <<>>,
                        "bool", host_scope),
                   Len(stmts) + 1)

NextDefVar ==
    \/ Push
    \/ PushConstant
    \/ EvalIsDefVar

SpecDefVar == Init /\ [][NextDefVar]_vars

---------------------------------------------------------------------------
(* Properties of is_def_var, checked under SpecDefVar.                     *)

\* The names that are defined where a script given a scope ends: the
\* entries of the scope and the names that statements at the top level of
\* the script declare with let or const.
DefinedAtEnd(scope, stmts) ==
    {scope[k].name : k \in DOMAIN scope}
        \cup {stmts[k].name : k \in {j \in DOMAIN stmts : stmts[j].s \in {"Let", "Const"}}}

\* C21: is_def_var(name) is true exactly when a variable of that name,
\* declared with let or const, is defined in the scope at the call, and
\* false for every other name.
C21_IsDefVar ==
    last.op = "is_def_var" =>
        result = Ok(Dynamic_from_bool(last.name \in DefinedAtEnd(last.scope,
                                                                   last.script.stmts)))

\* `const x = 42; is_def_var("x")` is true and, as the last call shows, a
\* name declared inside a block only is not defined after the block.
C21_Witness ==
    /\ last.op = "is_def_var"
    /\ last.scope = Scope_new
    /\ last.script.stmts = <<Const("x", IntegerConstant(42)), IsDefVar("x")>>
    /\ result = Ok(Dynamic_from_bool(TRUE))

---------------------------------------------------------------------------
(* Custom syntax and disabled symbols.  Here a script is the sequence of   *)
(* its symbols, and the parser is the part of the language the scripts of  *)
(* tests/syntax.rs are written in: let, while, blocks, `<`, `+=`,          *)
(* variables, literals and custom syntax.                                  *)

MARKER_IDENT == "$ident$"

MARKER_EXPR == "$expr$"

MARKER_BLOCK == "$block$"

Keywords == {"while", "let", "true", "false"}

Punctuation == {"{", "}", "=", ";", "|", "->", "<", "+=", "!"}

IntegerLiterals == {"0", "1", "42"}

\* The value of an integer literal.
parse_int(s) == CASE s = "0" -> 0 [] s = "1" -> 1 [] s = "42" -> 42

\* is_valid_identifier(name): letters, digits and _, not starting with a digit
is_valid_identifier(s) == s \notin Punctuation \cup IntegerLiterals

\* ParseErrorType::Reserved(symbol)
Reserved(s) == [kind |-> "Reserved", name |-> s]

\* ParseErrorType::BadInput(LexError::ImproperSymbol(text))
ImproperSymbol(text) == [kind |-> "BadInput", name |-> text]

\* ParseErrorType::BadInput(LexError::UnexpectedInput(symbol))
UnexpectedInput(s) == [kind |-> "UnexpectedInput", name |-> s]

\* ParseErrorType::MissingToken(symbol, ..)
MissingToken(s) == [kind |-> "MissingToken", name |-> s]

\* ParseErrorType::VariableExpected
VariableExpected == [kind |-> "VariableExpected", name |-> ""]

\* format!("Improper symbol for custom syntax at position #{}: '{}'", 1, s)
improper_symbol_at_1(s) ==
    CASE s = "!" -> "Improper symbol for custom syntax at position #1: '!'"
      [] s = "while" -> "Improper symbol for custom syntax at position #1: 'while'"
      [] s = "|" -> "Improper symbol for custom syntax at position #1: '|'"
      [] OTHER -> "Improper symbol for custom syntax at position #1"

\* Engine::disable_symbol(symbol)
disable_symbol(symbol) == [engine EXCEPT !.disabled_symbols = @ \cup {symbol}]

\* A token: the symbol and what the tokenizer of the engine makes of it.
Token(kind, syntax) == [kind |-> kind, syntax |-> syntax]

\* A tokenizer that does not look at the disabled symbols.
token_of_all_enabled(s) ==
    CASE s \in Keywords -> Token("Keyword", s)
      [] s \in Punctuation -> Token("Symbol", s)
      [] s \in IntegerLiterals -> Token("IntegerConstant", s)
      [] OTHER -> Token("Identifier", s)

\* The token of a symbol: a disabled symbol is a Reserved token.
token_of(s) ==
    IF s \in engine.disabled_symbols THEN Token("Reserved", s) ELSE token_of_all_enabled(s)

\* A registered custom syntax: the first symbol (key), the parser callback
\* (parse, with the segments it goes by) and the evaluation callback (func).
CustomSyntax(key, parser, segments, func) ==
    [key |-> key, parse |-> parser, segments |-> segments, func |-> func]

\* What a parser callback returns: an error, or the next slot as an Option.
Required(err, slot) == [err |-> err, slot |-> slot]

\* The parser callback of test_custom_syntax_raw that takes every
\* identifier.
hello_parse_any(stream) ==
    IF Len(stream) = 1 THEN Required(NoParseError, <<MARKER_IDENT>>)
    ELSE Required(NoParseError, <<>>)

\* The parser callback of test_custom_syntax_raw:
\*     |stream| match stream.len() { 1 => Ok(Some("$ident$")),
\*                                   2 => match stream[1] { "world" | "kitty" => Ok(None),
\*                                                          s => Err(ImproperSymbol(s)) } }
hello_parse(stream) ==
    CASE Len(stream) = 1 -> Required(NoParseError, <<MARKER_IDENT>>)
      [] Len(stream) = 2 /\ stream[2] \in {"world", "kitty"} -> Required(NoParseError, <<>>)
      [] OTHER -> Required(ImproperSymbol(stream[Len(stream)]), <<>>)

\* The parser callback register_custom_syntax makes of its segments.
segments_parse(segments, stream) ==
    IF Len(stream) >= Len(segments) THEN Required(NoParseError, <<>>)
    ELSE Required(NoParseError, <<segments[Len(stream) + 1]>>)

\* The parser callback of a custom syntax, called with the symbols consumed.
custom_parse(syntax, stream) ==
    IF syntax.parse = "hello" THEN hello_parse(stream)
    ELSE segments_parse(syntax.segments, stream)

\* What a registration returns: the engine after it and its Result.
RegisteredSyntax(self, res) == [engine |-> self, res |-> res]

\* Engine::register_custom_syntax_raw(key, parse, new_vars, func): a syntax
\* registered under the key before is replaced.  The parser callback is
\* named, the one of register_custom_syntax goes by its segments.
register_custom_syntax_raw(key, parser, segments, func) ==
    [engine EXCEPT !.custom_syntax =
        {c \in @ : c.key # key} \cup {CustomSyntax(key, parser, segments, func)}]

\* A register_custom_syntax that takes any first symbol.
register_custom_syntax_any(keywords, func) ==
    RegisteredSyntax(register_custom_syntax_raw(keywords[1], "segments", keywords, func),
                     Ok(Dynamic_UNIT))

\* Engine::register_custom_syntax(keywords, new_vars, func): the first
\* symbol must be an identifier.
register_custom_syntax(keywords, func) ==
    IF is_valid_identifier(keywords[1]) /\ keywords[1] \notin Keywords
    THEN RegisteredSyntax(register_custom_syntax_raw(keywords[1], "segments", keywords, func),
                          Ok(Dynamic_UNIT))
    ELSE RegisteredSyntax(engine,
                          Err(ErrorParsing(ImproperSymbol(improper_symbol_at_1(keywords[1])))))

\* The outcome of a parsing function: an error, or the node parsed and the
\* symbols after it; with it the lists the parser callbacks were called with.
Parsed(err, node, rest, calls) == [err |-> err, node |-> node, rest |-> rest, calls |-> calls]

Failed(err, calls) == Parsed(err, Unit, <<>>, calls)

\* Parsed b after parsed a.
After(a, b) == [b EXCEPT !.calls = a.calls \o @]

\* The custom syntax registered under a key, an Option.
custom_syntax_of(key) ==
    IF \E c \in engine.custom_syntax : c.key = key
    THEN <<CHOOSE c \in engine.custom_syntax : c.key = key>>
    ELSE <<>>

\* lhs op rhs
binary_of(op, lhs, rhs) ==
    IF rhs.err # NoParseError THEN After(lhs, rhs)
    ELSE Parsed(NoParseError, FnCall(op, <<lhs.node, rhs.node>>), rhs.rest,
                lhs.calls \o rhs.calls)

\* let name = expr
let_of(name, expr) ==
    IF expr.err # NoParseError THEN expr
    ELSE [expr EXCEPT !.node = Let(name, @)]

\* lhs += rhs
op_assignment_of(lhs, rhs) ==
    IF rhs.err # NoParseError THEN After(lhs, rhs)
    ELSE Parsed(NoParseError, Assignment(lhs.node, FnCall("+", <<lhs.node, rhs.node>>)),
                rhs.rest, lhs.calls \o rhs.calls)

\* while cond block
while_of(cond, block) ==
    IF block.err # NoParseError THEN After(cond, block)
    ELSE Parsed(NoParseError, While(cond.node, block.node.args), block.rest,
                cond.calls \o block.calls)

\* The statements of a block, and the symbols after its closing brace.
block_of(stmts) ==
    CASE stmts.err # NoParseError -> stmts
      [] stmts.rest = <<>> -> Failed(MissingToken("}"), stmts.calls)
      [] OTHER -> [stmts EXCEPT !.node = Expr_Stmt(@), !.rest = Tail(@)]

\* The statement one in front of the statements rest.
stmts_join(one, rest) ==
    IF rest.err # NoParseError THEN After(one, rest)
    ELSE Parsed(NoParseError, <<one.node>> \o rest.node, rest.rest, one.calls \o rest.calls)

\* The symbols after an optional semicolon.
skip_semicolon(tokens) ==
    IF tokens # <<>> /\ Head(tokens) = ";" THEN Tail(tokens) ELSE tokens

RECURSIVE parse_custom_syntax(_, _, _, _, _)
RECURSIVE parse_custom_required(_, _, _, _, _, _)
RECURSIVE parse_custom_after(_, _, _, _, _)
RECURSIVE parse_token_primary(_)
RECURSIVE parse_token_expr(_)
RECURSIVE parse_token_expr_after(_)
RECURSIVE parse_token_let(_)
RECURSIVE parse_token_while(_)
RECURSIVE parse_token_expr_stmt(_)
RECURSIVE parse_token_stmt(_)
RECURSIVE parse_token_stmts(_)
RECURSIVE parse_token_stmts_after(_)
RECURSIVE parse_token_block(_)

\* parse_custom_syntax: the parser callback is called with the symbols
\* consumed so far (segments), and what it returns is parsed next.
parse_custom_syntax(syntax, segments, keywords, tokens, calls) ==
    parse_custom_required(syntax, segments, keywords, tokens, Append(calls, segments),
                          custom_parse(syntax, segments))

parse_custom_required(syntax, segments, keywords, tokens, calls, required) ==
    CASE required.err # NoParseError -> Failed(required.err, calls)
      [] required.err = NoParseError /\ required.slot = <<>> ->
            Parsed(NoParseError, Custom(syntax.key, keywords), tokens, calls)
      [] required.err = NoParseError /\ required.slot # <<>> /\ tokens = <<>> ->
            Failed(MissingToken(required.slot[1]), calls)
      [] required.err = NoParseError /\ required.slot = <<MARKER_IDENT>> /\ tokens # <<>> ->
            IF token_of(Head(tokens)).kind = "Identifier"
            THEN parse_custom_syntax(syntax, Append(segments, Head(tokens)),
                                     Append(keywords, Variable(0, Head(tokens))),
                                     Tail(tokens), calls)
            ELSE IF token_of(Head(tokens)).kind = "Reserved"
            THEN Failed(Reserved(Head(tokens)), calls)
            ELSE Failed(VariableExpected, calls)
      [] required.err = NoParseError /\ required.slot = <<MARKER_EXPR>> /\ tokens # <<>> ->
            parse_custom_after(syntax, Append(segments, MARKER_EXPR), keywords, calls,
                               parse_token_expr(tokens))
      [] required.err = NoParseError /\ required.slot = <<MARKER_BLOCK>> /\ tokens # <<>> ->
            parse_custom_after(syntax, Append(segments, MARKER_BLOCK), keywords, calls,
                               parse_token_block(tokens))
      [] OTHER ->
            IF Head(tokens) = required.slot[1]
            THEN parse_custom_syntax(syntax, Append(segments, Head(tokens)), keywords,
                                     Tail(tokens), calls)
            ELSE Failed(MissingToken(required.slot[1]), calls)

parse_custom_after(syntax, segments, keywords, calls, parsed) ==
    IF parsed.err # NoParseError THEN Failed(parsed.err, calls \o parsed.calls)
    ELSE parse_custom_syntax(syntax, segments, Append(keywords, parsed.node), parsed.rest,
                             calls \o parsed.calls)

\* parse_primary: a Reserved token is an error wherever it stands.
parse_token_primary(tokens) ==
    CASE tokens = <<>> -> Failed(UnexpectedInput(""), <<>>)
      [] tokens # <<>> /\ token_of(Head(tokens)).kind = "Reserved" ->
            Failed(Reserved(Head(tokens)), <<>>)
      [] tokens # <<>> /\ token_of(Head(tokens)).kind = "IntegerConstant" ->
            Parsed(NoParseError, IntegerConstant(parse_int(Head(tokens))), Tail(tokens), <<>>)
      [] tokens # <<>> /\ token_of(Head(tokens)).kind = "Keyword"
         /\ Head(tokens) \in {"true", "false"} ->
            Parsed(NoParseError, BoolConstant(Head(tokens) = "true"), Tail(tokens), <<>>)
      [] tokens # <<>> /\ token_of(Head(tokens)).kind = "Identifier"
         /\ custom_syntax_of(Head(tokens)) # <<>> ->
            parse_custom_syntax(custom_syntax_of(Head(tokens))[1], <<Head(tokens)>>, <<>>,
                                Tail(tokens), <<>>)
      [] tokens # <<>> /\ token_of(Head(tokens)).kind = "Identifier"
         /\ custom_syntax_of(Head(tokens)) = <<>> ->
            Parsed(NoParseError, Variable(0, Head(tokens)), Tail(tokens), <<>>)
      [] OTHER -> Failed(UnexpectedInput(Head(tokens)), <<>>)

\* parse_expr: a primary, or a comparison of two
parse_token_expr(tokens) == parse_token_expr_after(parse_token_primary(tokens))

parse_token_expr_after(lhs) ==
    IF lhs.err = NoParseError /\ lhs.rest # <<>> /\ Head(lhs.rest) = "<"
    THEN binary_of("<", lhs, parse_token_primary(Tail(lhs.rest)))
    ELSE lhs

\* parse_let, after the keyword
parse_token_let(tokens) ==
    CASE tokens = <<>> -> Failed(VariableExpected, <<>>)
      [] tokens # <<>> /\ token_of(Head(tokens)).kind = "Reserved" ->
            Failed(Reserved(Head(tokens)), <<>>)
      [] tokens # <<>> /\ token_of(Head(tokens)).kind = "Identifier"
         /\ Len(tokens) >= 2 /\ tokens[2] = "=" ->
            let_of(Head(tokens), parse_token_expr(Tail(Tail(tokens))))
      [] tokens # <<>> /\ token_of(Head(tokens)).kind = "Identifier"
         /\ ~(Len(tokens) >= 2 /\ tokens[2] = "=") ->
            Parsed(NoParseError, Let(Head(tokens), Unit), Tail(tokens), <<>>)
      [] OTHER -> Failed(VariableExpected, <<>>)

\* parse_while, after the condition
parse_token_while(cond) ==
    IF cond.err # NoParseError THEN cond
    ELSE while_of(cond, parse_token_block(cond.rest))

\* An expression statement or an assignment, after the expression
parse_token_expr_stmt(lhs) ==
    CASE lhs.err # NoParseError -> lhs
      [] lhs.err = NoParseError /\ lhs.rest # <<>> /\ Head(lhs.rest) = "+=" ->
            op_assignment_of(lhs, parse_token_expr(Tail(lhs.rest)))
      [] OTHER -> [lhs EXCEPT !.node = Stmt_Expr(@)]

\* parse_stmt
parse_token_stmt(tokens) ==
    CASE token_of(Head(tokens)) = Token("Keyword", "let") -> parse_token_let(Tail(tokens))
      [] token_of(Head(tokens)) = Token("Keyword", "while") ->
            parse_token_while(parse_token_expr(Tail(tokens)))
      [] OTHER -> parse_token_expr_stmt(parse_token_expr(tokens))

\* The statements up to the end of the script or of the block
parse_token_stmts(tokens) ==
    IF tokens = <<>> \/ Head(tokens) = "}" THEN Parsed(NoParseError, <<>>, tokens, <<>>)
    ELSE parse_token_stmts_after(parse_token_stmt(tokens))

parse_token_stmts_after(one) ==
    IF one.err # NoParseError THEN one
    ELSE stmts_join(one, parse_token_stmts(skip_semicolon(one.rest)))

\* parse_block
parse_token_block(tokens) ==
    IF tokens = <<>> \/ Head(tokens) # "{" THEN Failed(MissingToken("{"), <<>>)
    ELSE block_of(parse_token_stmts(Tail(tokens)))

\* The AST of a parsed script, or its error; the calls of the parser
\* callbacks are kept.
compiled_of(stmts) ==
    CASE stmts.err # NoParseError ->
            [err |-> stmts.err, ast |-> NoAST, calls |-> stmts.calls]
      [] stmts.err = NoParseError /\ stmts.rest # <<>> ->
            [err |-> UnexpectedInput(Head(stmts.rest)), ast |-> NoAST, calls |-> stmts.calls]
      [] OTHER ->
            [err |-> NoParseError, ast |-> AST_new(stmts.node, Module_default),
             calls |-> stmts.calls]

\* Engine::compile of a script given by its symbols
compile_symbols(tokens) == compiled_of(parse_token_stmts(tokens))

---------------------------------------------------------------------------
(* SpecSyntax: a host that disables symbols, registers custom syntax and   *)
(* compiles scripts (tests/syntax.rs).                                     *)

\* exec |$ident$| -> $block$ while $expr$
ExecSyntax == <<"exec", "|", MARKER_IDENT, "|", "->", MARKER_BLOCK, "while", MARKER_EXPR>>

\* exec |x| -> { x += 1 } while x < 42; x
ExecScript ==
    <<"exec", "|", "x", "|", "->", "{", "x", "+=", "1", "}", "while", "x", "<", "42", ";", "x">>

\* The symbol sequences the host registers.
SyntaxPool == {ExecSyntax, <<"!">>, <<"|", "x">>, <<"while", MARKER_EXPR>>}

\* The scripts the host compiles.
SymbolScripts ==
    { <<"while", "false", "{", "}">>,
      <<"let", "while", "=", "0">>,
      <<"let", "x", "=", "0">>,
      <<"x", ";", "while", "false", "{", "}">>,
      ExecScript,
      <<"hello", "world">>,
      <<"hello", "kitty">>,
      <<"hello", "hey">>,
      <<"hello">> }

\* The record of a call: its symbols, the lists the parser callbacks were
\* called with, and the custom syntax registered before the call.
SyntaxCall(op, symbols, calls) ==
    [op |-> op, symbols |-> symbols, calls |-> calls, before |-> engine.custom_syntax]

\* engine.disable_symbol(symbol);
DisableSymbol ==
    /\ work < MaxWork
    /\ work' = work + 1
    /\ \E symbol \in {"while", "let"} :
          /\ engine' = disable_symbol(symbol)
          /\ last' = SyntaxCall("disable_symbol", <<symbol>>, <<>>)
    /\ UNCHANGED <<host_scope, host_ast, result, started, caller, run_state, astVars>>

\* engine.register_custom_syntax(&keywords, 1, func)
RegisterCustomSyntax ==
    /\ work < MaxWork
    /\ work' = work + 1
    /\ \E keywords \in SyntaxPool :
          /\ engine' = register_custom_syntax(keywords, "exec").engine
          /\ result' = register_custom_syntax(keywords, "exec").res
          /\ last' = SyntaxCall("register_custom_syntax", keywords, <<>>)
    /\ UNCHANGED <<host_scope, host_ast, started, caller, run_state, astVars>>

\* engine.register_custom_syntax_raw("hello", parse, 0, func);
RegisterCustomSyntaxRaw ==
    /\ work < MaxWork
    /\ work' = work + 1
    /\ engine' = register_custom_syntax_raw("hello", "hello", <<>>, "hello")
    /\ last' = SyntaxCall("register_custom_syntax_raw", <<"hello">>, <<>>)
    /\ UNCHANGED <<host_scope, host_ast, result, started, caller, run_state, astVars>>

\* The host takes the outcome of a compilation.
CompiledSymbols(compiled, symbols) ==
    /\ host_ast' = IF compiled.err = NoParseError THEN compiled.ast ELSE host_ast
    /\ result' = IF compiled.err = NoParseError THEN Ok(Dynamic_UNIT)
                 ELSE Err(ErrorParsing(compiled.err))
    /\ last' = SyntaxCall("compile", symbols, compiled.calls)

\* let ast = engine.compile(script);
CompileSymbols ==
    /\ work < MaxWork
    /\ work' = work + 1
    /\ \E symbols \in SymbolScripts : CompiledSymbols(compile_symbols(symbols), symbols)
    /\ UNCHANGED <<host_scope, started, setVars>>

NextSyntax ==
    \/ DisableSymbol
    \/ RegisterCustomSyntax
    \/ RegisterCustomSyntaxRaw
    \/ CompileSymbols

SpecSyntax == Init /\ [][NextSyntax]_vars

---------------------------------------------------------------------------
(* Properties of custom syntax and disabled symbols, checked under         *)
(* SpecSyntax.                                                             *)

\* The positions where a script uses a disabled symbol as a keyword (at the
\* start of a statement) or as an identifier (after let).
DisabledUses(symbols) ==
    { k \in DOMAIN symbols :
        /\ symbols[k] \in engine.disabled_symbols
        /\ k = 1 \/ symbols[k - 1] \in {";", "let"} }

\* The least of a set of positions.
FirstOf(S) == CHOOSE m \in S : \A k \in S : m <= k

\* C23: after disable_symbol(s), a script that uses s as a keyword or as an
\* identifier fails to compile with Reserved(s), whereas it compiles while
\* no symbol is disabled; a custom syntax registered with s in a keyword
\* slot still parses.
C23_DisabledSymbolReserved ==
    (last.op = "compile" /\ Head(last.symbols) # "hello") =>
        /\ DisabledUses(last.symbols) # {} =>
              result = Err(ErrorParsing(Reserved(last.symbols[FirstOf(DisabledUses(last.symbols))])))
        /\ (/\ engine.disabled_symbols = {}
            /\ last.symbols # ExecScript
            /\ \A k \in DOMAIN last.symbols :
                  (k > 1 /\ last.symbols[k - 1] = "let") => last.symbols[k] \notin Keywords)
              => is_ok(result)
        /\ (/\ last.symbols = ExecScript
            /\ custom_syntax_of("exec") = <<CustomSyntax("exec", "segments", ExecSyntax, "exec")>>
            /\ "let" \notin engine.disabled_symbols)
              => is_ok(result)

\* `while false {}` is rejected with Reserved("while") on an engine with
\* while disabled and the custom syntax exec registered.
C23_Witness ==
    /\ last.op = "compile"
    /\ last.symbols = <<"while", "false", "{", "}">>
    /\ "while" \in engine.disabled_symbols
    /\ custom_syntax_of("exec") # <<>>
    /\ result = Err(ErrorParsing(Reserved("while")))

\* C24: the parser callback of a custom syntax is called after each symbol
\* consumed, with the symbols consumed so far; parsing ends when it returns
\* None and compilation fails with its error when it returns one.
C24_ParserCallback ==
    (/\ last.op = "compile"
     /\ Len(last.symbols) = 2
     /\ Head(last.symbols) = "hello"
     /\ custom_syntax_of("hello") # <<>>)
        => /\ last.calls = <<SubSeq(last.symbols, 1, 1), SubSeq(last.symbols, 1, 2)>>
           /\ last.symbols[2] \in {"world", "kitty"} =>
                 /\ is_ok(result)
                 /\ host_ast.statements
                       = <<Stmt_Expr(Custom("hello", <<Variable(0, last.symbols[2])>>))>>
           /\ last.symbols[2] \notin {"world", "kitty"} =>
                 result = Err(ErrorParsing(ImproperSymbol(last.symbols[2])))

\* `hello hey` fails with the error of the callback.
C24_Witness ==
    /\ last.op = "compile"
    /\ last.symbols = <<"hello", "hey">>
    /\ last.calls = <<<<"hello">>, <<"hello", "hey">>>>
    /\ result = Err(ErrorParsing(ImproperSymbol("hey")))

\* C25: register_custom_syntax with a first symbol that is not an identifier
\* returns BadInput(ImproperSymbol(..)) naming position #1 and the symbol,
\* and registers nothing.
C25_FirstSymbolIdentifier ==
    (last.op = "register_custom_syntax" /\ Head(last.symbols) \in Punctuation \cup Keywords)
        => /\ result = Err(ErrorParsing(ImproperSymbol(improper_symbol_at_1(Head(last.symbols)))))
           /\ Head(last.symbols) = "!" =>
                 result.err.name = "Improper symbol for custom syntax at position #1: '!'"
           /\ engine.custom_syntax = last.before

\* The registration of `!` fails on an engine that has the syntax exec.
C25_Witness ==
    /\ last.op = "register_custom_syntax"
    /\ last.symbols = <<"!">>
    /\ ~is_ok(result)
    /\ custom_syntax_of("exec") # <<>>
    /\ custom_syntax_of("!") = <<>>

---------------------------------------------------------------------------
(* SpecExec: the evaluation of a script that uses the custom syntax exec,  *)
(* one step for each evaluation the callback of test_custom_syntax asks    *)
(* for (tests/syntax.rs:24-50):                                            *)
(*     context.scope.push(var_name, 0 as INT);                             *)
(*     loop { context.eval_expression_tree(stmt)?;                         *)
(*            let stop = !context.eval_expression_tree(condition)?         *)
(*                           .as_bool().map_err(..)?;                      *)
(*            if stop { break; } }                                         *)
(*     Ok(().into())                                                       *)
(* The steps of a run are taken in order until the run is done.            *)

\* The scripts the host evaluates: exec |x| -> { x += 1 } while x < n; x
ExecScripts == {[ExecScript EXCEPT ![14] = n] : n \in {"1", "42"}}

\* Where a run is: in the callback before the block (block) or before the
\* condition (condition), or after the custom expression (rest).
Running == {"block", "condition", "rest"}

\* The record of a run: the script, the inputs of the callback and the
\* statements after the custom expression.
ExecRun(op, symbols, inputs, rest) ==
    [op |-> op, symbols |-> symbols, inputs |-> inputs, rest |-> rest,
     before |-> engine.custom_syntax]

\* A callback that does not push the variable.
exec_begin_without_variable(scope, inputs) == scope

\* let var_name = inputs[0].get_variable_name().unwrap().to_string();
\* context.scope.push(var_name, 0 as INT);
exec_begin(scope, inputs) == Scope_push(scope, inputs[1].name, Dynamic_from_int(0))

\* The run after the evaluation of the block: an error ends it, the
\* variables the block declared are dropped.
exec_block(scope, inputs, run) ==
    IF is_ok(run.res)
    THEN [op |-> "condition", scope |-> Scope_rewind(run.scope, Len(scope)), res |-> NoResult]
    ELSE [op |-> "done", scope |-> Scope_rewind(run.scope, Len(scope)), res |-> run.res]

\* The run after the evaluation of the condition: an error or a value that
\* is no bool ends it, false ends the callback with Ok(()).
exec_condition(scope, inputs, run) ==
    CASE ~is_ok(run.res) -> [op |-> "done", scope |-> scope, res |-> run.res]
      [] is_ok(run.res) /\ run.res.value.t # "bool" ->
            [op |-> "done", scope |-> scope,
             res |-> Err(ErrorMismatchDataType("bool", run.res.value.t))]
      [] is_ok(run.res) /\ run.res.value.t = "bool" /\ run.res.value.i = 1 ->
            [op |-> "block", scope |-> scope, res |-> NoResult]
      [] OTHER -> [op |-> "rest", scope |-> scope, res |-> NoResult]

\* engine.register_custom_syntax(&keywords, 1, func), between runs
ExecRegisterCustomSyntax ==
    /\ last.op \notin Running
    /\ RegisterCustomSyntax

\* engine.eval::<INT>(script), the last call of the host: the script is
\* compiled, and the statement with the custom expression calls the
\* callback.
EvalSymbols ==
    /\ work < MaxWork
    /\ last.op \notin Running
    /\ work' = MaxWork
    /\ \E symbols \in ExecScripts :
          IF compile_symbols(symbols).err # NoParseError
          THEN /\ result' = Err(ErrorParsing(compile_symbols(symbols).err))
               /\ last' = ExecRun("done", symbols, <<>>, <<>>)
               /\ UNCHANGED <<host_scope, host_ast>>
          ELSE /\ host_ast' = compile_symbols(symbols).ast
               /\ host_scope' = exec_begin(Scope_new,
                                           compile_symbols(symbols).ast.statements[1].expr.args)
               /\ result' = NoResult
               /\ last' = ExecRun("block", symbols,
                                  compile_symbols(symbols).ast.statements[1].expr.args,
                                  Tail(compile_symbols(symbols).ast.statements))
    /\ UNCHANGED <<started, setVars>>

\* The run takes the step to the record next.
ExecStep(next) ==
    /\ host_scope' = next.scope
    /\ result' = next.res
    /\ last' = [last EXCEPT !.op = next.op]
    /\ UNCHANGED <<host_ast, started, work, setVars>>

\* context.eval_expression_tree(stmt)?;
ExecBlock ==
    /\ last.op = "block"
    /\ \E next \in {exec_block(host_scope, last.inputs,
                                eval_statements(host_scope, State_new, host_ast.lib, <<>>,
                                                last.inputs[2].args, 0))} :
          ExecStep(next)

\* let stop = !context.eval_expression_tree(condition)?.as_bool()?;
ExecCondition ==
    /\ last.op = "condition"
    /\ \E next \in {exec_condition(host_scope, last.inputs,
                                    eval_expr(host_scope, State_new, host_ast.lib, <<>>,
                                              last.inputs[3], 0))} :
          ExecStep(next)

\* The statements after the custom expression, and the cast to INT.
ExecRest ==
    /\ last.op = "rest"
    /\ \E run \in {cast_result(eval_statements(host_scope, State_new, host_ast.lib, <<>>,
                                                last.rest, 0), "i64")} :
          ExecStep([op |-> "done", scope |-> run.scope, res |-> run.res])

NextExec ==
    \/ ExecRegisterCustomSyntax
    \/ EvalSymbols
    \/ ExecBlock
    \/ ExecCondition
    \/ ExecRest

\* A run that can take a step takes it.
SpecExec ==
    /\ Init
    /\ [][NextExec]_vars
    /\ WF_vars(ExecBlock)
    /\ WF_vars(ExecCondition)
    /\ WF_vars(ExecRest)

---------------------------------------------------------------------------
(* Properties of the custom syntax exec, checked under SpecExec.           *)

\* C22: the loop of `exec |x| -> { x += 1 } while x < 42; x` terminates and
\* the variable is visible to the statement after the custom expression:
\* the script evaluates to 42.
C22_ExecTerminates ==
    \A symbols \in ExecScripts :
        (last.op = "block" /\ last.symbols = symbols)
            ~> (/\ last.op = "done"
                /\ last.symbols = symbols
                /\ result = Ok(Dynamic_from_int(parse_int(symbols[14]))))

\* The script of the test is done with 42, and x is 42 in the scope.
C22_Witness ==
    /\ last.op = "done"
    /\ last.symbols = ExecScript
    /\ result = Ok(Dynamic_from_int(42))
    /\ host_scope = Scope_push(Scope_new, "x", Dynamic_from_int(42))

=============================================================================
